---- MODULE Spec2Model ----
(***************************************************************************)
(* Model of pulumi-azure-serverless: the dependency closure resolver, the  *)
(* asset-map packaging, the EventSubscription constructor and the signed   *)
(* blob URL generator.                                                     *)
(*                                                                         *)
(* Strings are tuples of one-character strings, so that startsWith,        *)
(* basename and join are computed as the code computes them.  A filesystem *)
(* path is the sequence of its folder names.                               *)
(***************************************************************************)
EXTENDS Integers, Sequences, FiniteSets, TLC

VARIABLES
    packageTree,        \* the tree readPackageTree(".") hands to its callback: node id -> Package
    readError,          \* the err readPackageTree hands to its callback ("none" when it succeeds)
    includedPackages,   \* allFoldersForPackages argument (a Set, in insertion order)
    excludedPackages,   \* allFoldersForPackages argument
    pathSetPromise,     \* the promise allFoldersForPackages (or computeCodePaths) returns
    revision,           \* the source file whose EventSubscription is constructed
    args,               \* which fields of EventSubscriptionArgs the caller supplied
    ctor,               \* what the EventSubscription constructor has done
    created,            \* the registered resources the engine has provisioned
    serializedHandler,  \* state of the promise of pulumi.runtime.serializeFunction
    bindings,           \* state of the bindings Output
    assetMap,           \* state of the Output serializeCallback returns
    codeBlobUrl,        \* state of the Output signedBlobReadUrl returns
    sasRequests,        \* the signing requests issued so far, in order
    functionName,       \* the name the subscription is constructed with
    fileSystem,         \* what fs.lstatSync reports for each installed package folder
    zipContent,         \* the AssetMap the zip blob's content is built from
    appSettings,        \* args.appSettings as the EventSubscription constructor receives it
    functionAppSettings, \* the appSettings the FunctionApp is provisioned with
    primaryConnectionString, \* account.primaryConnectionString once it is known
    bindingList,        \* the value the bindings Output resolves to
    blobArgs,           \* the BlobEventSubscriptionArgs onBlobEvent is called with
    blobSubscription,   \* what the call of onBlobEvent has come to
    lookup,             \* the last call of findDependency and what it returned
    settledOrder,       \* the computations serializeCallback joins, in the order they completed
    pathForm,           \* whether readPackageTree hands out relative or absolute paths
    settingsObject,     \* the object inside the appSettings Output two subscriptions share
    subscriptions       \* the two subscriptions made from that Output, and how far each has come

vars == <<packageTree, readError, includedPackages, excludedPackages, pathSetPromise,
          revision, args, ctor, created, serializedHandler, bindings, assetMap,
          codeBlobUrl, sasRequests, functionName, fileSystem, zipContent, appSettings,
          functionAppSettings, primaryConnectionString, bindingList, blobArgs,
          blobSubscription, lookup, settledOrder, pathForm, settingsObject,
          subscriptions>>

----------------------------------------------------------------------------
(* Bounds of the model *)

\* installed packages besides the root
MaxNodes == 3
\* declared dependencies of an installed package
MaxDeps == 1
\* runtime dependencies declared by the root project
MaxRootDeps == 2
\* frames the JavaScript call stack holds before RangeError is thrown
MaxCallStack == 6
\* installed packages when the caller's sets or the root's other declarations vary
MaxArgNodes == 2
\* names in includedPackages, and in excludedPackages
MaxIncluded == 1
MaxExcluded == 1
\* development-only and peer-only declarations of the root
MaxDevDeps == 1
\* calls of signedBlobReadUrl
MaxSignings == 2
\* installed packages when findDependency is called on its own
MaxFindNodes == 3
\* installed packages when scoped names are declared
MaxScopedNodes == 2
\* calls of onBlobEvent that share one appSettings value
MaxSubscriptions == 2
\* runtime dependencies of the root when the asset map is built on any disk
MaxPackagedRootDeps == 1

----------------------------------------------------------------------------
(* Strings *)

NameA == <<"a">>
NameB == <<"b">>
NameC == <<"c">>
NamePulumiX == <<"@", "p", "u", "l", "u", "m", "i", "/", "x">>
AtPulumi == <<"@", "p", "u", "l", "u", "m", "i">>
NodeModules == <<"n", "o", "d", "e", "_", "m", "o", "d", "u", "l", "e", "s">>
ProjectFolder == <<"p", "r", "o", "j">>
Slash == <<"/">>

\* String.prototype.startsWith
StartsWith(s, prefix) ==
    /\ Len(s) >= Len(prefix)
    /\ SubSeq(s, 1, Len(prefix)) = prefix

\* path.basename and path.dirname on a path held as its sequence of folder names
Basename(path) == path[Len(path)]
Dirname(path) == SubSeq(path, 1, Len(path) - 1)
\* path.join of two folder names
Join(a, b) == a \o Slash \o b

NoNode == -1
RootNode == 0

----------------------------------------------------------------------------
(* The installed package trees the resolver is run on *)

\* names a package can be installed under, in folder (readdir) order
InstallOrder == <<NameA, NameB, NamePulumiX>>
InstallNames == {InstallOrder[i] : i \in 1..Len(InstallOrder)}
\* names a package.json can declare; NameC is never installed
DepNames == InstallNames \cup {NameC}

InstallIndex(name) == CHOOSE i \in 1..Len(InstallOrder) : InstallOrder[i] = name

\* the folders a package of that name is installed in: "@org/pkg" lives in @org/pkg
FolderSegs(name) ==
    IF name[1] = "@" /\ \E i \in 1..Len(name) : name[i] = "/"
    THEN LET i == CHOOSE j \in 1..Len(name) : name[j] = "/"
         IN <<SubSeq(name, 1, i - 1), SubSeq(name, i + 1, Len(name))>>
    ELSE <<name>>

\* sequences without repetition of at most n elements of S (Object.keys order)
KeySeqs(S, n) ==
    UNION {{s \in [1..m -> S] : \A i, j \in 1..m : i # j => s[i] # s[j]} : m \in 0..n}

\* the shapes of node_modules: node i is installed under node lay[i].parent as lay[i].pkg;
\* nodes are numbered level by level, siblings in folder order, so sibling folders differ
Layouts(k) ==
    {lay \in [1..k -> [parent : 0..(k - 1), pkg : InstallNames]] :
        /\ \A i \in 1..k : lay[i].parent < i
        /\ \A i \in 1..(k - 1) :
            \/ lay[i].parent < lay[i + 1].parent
            \/ /\ lay[i].parent = lay[i + 1].parent
               /\ InstallIndex(lay[i].pkg) < InstallIndex(lay[i + 1].pkg)}

RECURSIVE LayoutPath(_, _)
LayoutPath(lay, i) ==
    IF i = RootNode THEN <<ProjectFolder>>
    ELSE LayoutPath(lay, lay[i].parent) \o <<NodeModules>> \o FolderSegs(lay[i].pkg)

RECURSIVE ChildrenFrom(_, _, _, _)
ChildrenFrom(lay, k, p, i) ==
    IF i > k THEN <<>>
    ELSE IF lay[i].parent = p THEN <<i>> \o ChildrenFrom(lay, k, p, i + 1)
    ELSE ChildrenFrom(lay, k, p, i + 1)

\* the Package nodes read-package-tree builds for a layout; the stored name of a node
\* is the name of its folder, which for a scoped package drops the organization
MakeTree(k, lay, deps, devDeps, peerDeps) ==
    [i \in 0..k |->
        [name |-> IF i = RootNode THEN ProjectFolder ELSE Basename(LayoutPath(lay, i)),
         path |-> LayoutPath(lay, i),
         package |-> [dependencies |-> deps[i],
                      devDependencies |-> IF i = RootNode THEN devDeps ELSE <<>>,
                      peerDependencies |-> IF i = RootNode THEN peerDeps ELSE <<>>],
         parent |-> IF i = RootNode THEN NoNode ELSE lay[i].parent,
         children |-> ChildrenFrom(lay, k, i, 1)]]

\* the dependency declarations of the nodes of a tree of k installed packages
DepsOf(k, maxRootDeps) ==
    {d \in [0..k -> KeySeqs(DepNames, maxRootDeps)] :
        \A i \in 1..k : Len(d[i]) <= MaxDeps}

\* tree is one of the trees of at most maxNodes installed packages, none of which
\* declares a dependency on its own name
IsTreeWith(tree, maxNodes, maxRootDeps, devChoices, peerChoices) ==
    \E k \in 0..maxNodes : \E lay \in Layouts(k) : \E deps \in DepsOf(k, maxRootDeps) :
        \E dev \in devChoices : \E peer \in peerChoices :
            /\ \A i \in 1..k : \A j \in 1..Len(deps[i]) : deps[i][j] # lay[i].pkg
            /\ tree = MakeTree(k, lay, deps, dev, peer)

----------------------------------------------------------------------------
(* subscription.ts: the dependency closure resolver *)

Nodes == DOMAIN packageTree

\* a match on the stored name alone
ChildName_Stored(child) == packageTree[child].name

\* the name findDependency matches a child under
ChildName(child) ==
    LET childFolderName == Basename(packageTree[child].path)
        parentFolderName == Basename(Dirname(packageTree[child].path))
    IN IF parentFolderName[1] = "@"
       THEN Join(parentFolderName, childFolderName)
       ELSE packageTree[child].name

FirstMatch(children, name) ==
    LET hits == {i \in 1..Len(children) : ChildName(children[i]) = name}
    IN IF hits = {} THEN NoNode
       ELSE children[CHOOSE i \in hits : \A j \in hits : i <= j]

\* a search that looks at the starting node's children and no further
findDependency_ChildrenOnly(root, name) ==
    IF root = NoNode THEN NoNode
    ELSE FirstMatch(packageTree[root].children, name)

RECURSIVE findDependency(_, _)
findDependency(root, name) ==
    IF root = NoNode THEN NoNode
    ELSE LET child == FirstMatch(packageTree[root].children, name)
         IN IF child # NoNode THEN child
            ELSE findDependency(packageTree[root].parent, name)

\* Set.prototype.add on a Set held in insertion order
SetAdd(set, x) ==
    IF \E i \in 1..Len(set) : set[i] = x THEN set ELSE Append(set, x)

SetValues(set) == {set[i] : i \in 1..Len(set)}

\* a resolver that forgets the caller's exclusion set
IsSkipped_PulumiOnly(pkg, excluded) == StartsWith(pkg, AtPulumi)

\* the test that makes addPackageAndDependenciesToSet return at once
IsSkipped(pkg, excluded) ==
    \/ pkg \in excluded
    \/ StartsWith(pkg, AtPulumi)

\* acc is what the call has done so far: the Set it fills, the console.warn lines,
\* the nodes whose dependencies it walked, and whether the call stack ran out
RECURSIVE addPackageAndDependenciesToSet(_, _, _, _, _)
RECURSIVE ForEachDependency(_, _, _, _, _, _)
addPackageAndDependenciesToSet(root, pkg, acc, excluded, depth) ==
    IF acc.rangeError THEN acc
    ELSE IF depth > MaxCallStack THEN [acc EXCEPT !.rangeError = TRUE]
    ELSE IF IsSkipped(pkg, excluded) THEN acc
    ELSE LET child == findDependency(root, pkg)
         IN IF child = NoNode
            THEN [acc EXCEPT !.warnings = Append(@, pkg)]
            ELSE ForEachDependency(child, packageTree[child].package.dependencies, 1,
                     [acc EXCEPT !.packagePaths = SetAdd(@, packageTree[child].path),
                                 !.walked = Append(@, child)],
                     excluded, depth)

ForEachDependency(child, keys, i, acc, excluded, depth) ==
    IF i > Len(keys) \/ acc.rangeError THEN acc
    ELSE ForEachDependency(child, keys, i + 1,
             addPackageAndDependenciesToSet(child, keys[i], acc, excluded, depth + 1),
             excluded, depth)

\* a resolver that also starts from the root's devDependencies
ReferencedPackages_WithDev(included) ==
    LET keys == packageTree[RootNode].package.dependencies
                \o packageTree[RootNode].package.devDependencies
        RECURSIVE AddAll(_, _)
        AddAll(set, i) == IF i > Len(keys) THEN set ELSE AddAll(SetAdd(set, keys[i]), i + 1)
    IN AddAll(included, 1)

\* the Set of names allFoldersForPackages starts from
ReferencedPackages(included) ==
    LET keys == packageTree[RootNode].package.dependencies
        RECURSIVE AddAll(_, _)
        AddAll(set, i) == IF i > Len(keys) THEN set ELSE AddAll(SetAdd(set, keys[i]), i + 1)
    IN AddAll(included, 1)

EmptyAcc == [packagePaths |-> <<>>, warnings |-> <<>>, walked |-> <<>>, rangeError |-> FALSE]

RECURSIVE ForEachReferenced(_, _, _, _)
ForEachReferenced(referenced, i, acc, excluded) ==
    IF i > Len(referenced) \/ acc.rangeError THEN acc
    ELSE ForEachReferenced(referenced, i + 1,
             addPackageAndDependenciesToSet(RootNode, referenced[i], acc, excluded, 1),
             excluded)

\* a callback that answers a failed read with an empty Set
allFoldersForPackages_IgnoringErr(included, excluded) ==
    [state |-> "resolved", error |-> "none", packagePaths |-> <<>>,
     warnings |-> <<>>, walked |-> <<>>]

\* the readPackageTree callback of allFoldersForPackages, and what becomes of the promise
allFoldersForPackages(included, excluded) ==
    IF readError # "none"
    THEN [state |-> "rejected", error |-> readError, packagePaths |-> <<>>,
          warnings |-> <<>>, walked |-> <<>>]
    ELSE LET acc == ForEachReferenced(ReferencedPackages(included), 1, EmptyAcc, excluded)
         IN IF acc.rangeError
            THEN [state |-> "threw", error |-> "RangeError", packagePaths |-> <<>>,
                  warnings |-> acc.warnings, walked |-> acc.walked]
            ELSE [state |-> "resolved", error |-> "none", packagePaths |-> acc.packagePaths,
                  warnings |-> acc.warnings, walked |-> acc.walked]

Pending == [state |-> "pending", error |-> "none", packagePaths |-> <<>>,
            warnings |-> <<>>, walked |-> <<>>]


----------------------------------------------------------------------------
(* util.ts and functionApp.ts: signedBlobReadUrl *)

\* hours from 1970-01-01T00:00Z to 2100-02-01T00:00Z
HoursToFeb2100 == 1140312
\* readings of the build machine's clock, in hours since the epoch
MaxClock == 1
\* offsets of the build machine's local time from UTC, in hours
TimeZones == {-8, 0, 1}
ConnectionStrings == {"AccountKey=k1", "AccountKey=k2"}
ContainerNames == {"container"}
BlobNames == {"blob1", "blob2"}

\* new Date(value): the instant value after the epoch
DateOfEpoch(value) == value
\* new Date(2100, 1): midnight of 1 February 2100 on the local clock
DateOfYearMonth(timeZone) == HoursToFeb2100 - timeZone
\* Date.prototype.toISOString: the instant written in UTC
ToISOString(date) == <<"Z", date>>

BlobUrl(containerName, blobName) == <<"https", containerName, blobName>>

\* a request that also grants write
SasPermissions_ReadWrite ==
    [read |-> TRUE, write |-> TRUE, create |-> FALSE, add |-> FALSE,
     list |-> FALSE, delete |-> FALSE, update |-> FALSE, process |-> FALSE]

\* the permissions signedBlobReadUrl asks getAccountSAS for
SasPermissions ==
    [read |-> TRUE, write |-> FALSE, create |-> FALSE, add |-> FALSE,
     list |-> FALSE, delete |-> FALSE, update |-> FALSE, process |-> FALSE]

\* azurestorage.BlobUtilities.SharedAccessPermissions.READ
SharedAccessPermissionsREAD == <<"r">>

\* account.ts: the getAccountSAS request signedBlobReadUrl builds in its apply callback
AccountSASArgs(connectionString, env) ==
    LET signatureStart == DateOfEpoch(0)
        signatureExpiration == DateOfYearMonth(env.timeZone)
    IN [connectionString |-> connectionString,
        start |-> ToISOString(signatureStart),
        expiry |-> ToISOString(signatureExpiration),
        permissions |-> SasPermissions,
        services |-> [blob |-> TRUE, file |-> FALSE, queue |-> FALSE, table |-> FALSE],
        resourceTypes |-> [object |-> TRUE, container |-> FALSE, service |-> FALSE]]

\* functionApp.ts: the shared access policy signedBlobReadUrl hands to BlobService
SharedAccessPolicy(connectionString, containerName, blobName, env) ==
    LET signatureExpiration == DateOfYearMonth(env.timeZone)
    IN [connectionString |-> connectionString,
        containerName |-> containerName,
        blobName |-> blobName,
        AccessPolicy |-> [Expiry |-> ToISOString(signatureExpiration),
                          Permissions |-> SharedAccessPermissionsREAD]]

\* the signature the service computes: a function of the request it is given and nothing else
Signature(request) == <<"sig", request>>

\* account.ts signedBlobReadUrl: blobUrl + accountSAS.sas
signedBlobReadUrl(blobUrl, connectionString, env) ==
    LET request == AccountSASArgs(connectionString, env)
    IN [revision |-> "util.ts", request |-> request,
        url |-> <<blobUrl, Signature(request)>>]

\* functionApp.ts signedBlobReadUrl: blobService.getUrl(containerName, blobName, signature)
signedBlobReadUrl_functionApp(connectionString, containerName, blobName, env) ==
    LET request == SharedAccessPolicy(connectionString, containerName, blobName, env)
    IN [revision |-> "functionApp.ts", request |-> request,
        url |-> <<BlobUrl(containerName, blobName), Signature(request)>>]

Environments == [now : 0..MaxClock, timeZone : TimeZones]

\* one entry of sasRequests: what the call was given, where it ran, what it asked and returned
Signing(connectionString, containerName, blobName, env, result) ==
    [connectionString |-> connectionString, containerName |-> containerName,
     blobName |-> blobName, env |-> env, revision |-> result.revision,
     request |-> result.request, url |-> result.url]

----------------------------------------------------------------------------
(* subscription.ts and its later revision: serializeCallback, EventSubscription *)

Revisions == {"subscription.ts", "part_001"}

ResourceGroupError == "RunError: [resourceGroup] must be provided in [args]."
BothCallbacksError == "RunError: Cannot provide both [func] and [factoryFunc]"
NoCallbackError == "Error: Missing required function callback"

\* subscription.ts serializeCallback, up to the Output it returns: the work it starts
serializeCallback(a) ==
    [thrown |-> "none", started |-> {"readPackageTree", "serializeFunction"}]

\* a serializeCallback that lets a caller with no callback through
serializeCallback_part001_NoMissingCheck(a) ==
    IF a.func /\ a.factoryFunc
    THEN [thrown |-> BothCallbacksError, started |-> {}]
    ELSE [thrown |-> "none", started |-> {"serializeFunction", "computeCodePaths"}]

\* part_001 serializeCallback, up to the Output it returns
serializeCallback_part001(a) ==
    IF a.func /\ a.factoryFunc
    THEN [thrown |-> BothCallbacksError, started |-> {}]
    ELSE IF ~a.func /\ ~a.factoryFunc
    THEN [thrown |-> NoCallbackError, started |-> {}]
    ELSE [thrown |-> "none", started |-> {"serializeFunction", "computeCodePaths"}]

\* a constructor that goes on without a resource group
ResourceGroupMissing_Never(a) == FALSE

\* the test of args.resourceGroup the constructor makes after super()
ResourceGroupMissing(a) == ~a.resourceGroup

\* a constructor that registers a storage account of its own whatever the caller supplied
DefaultResources_AlwaysAccount(a) ==
    <<"storageAccount">>
    \o (IF a.storageContainer THEN <<>> ELSE <<"storageContainer">>)
    \o (IF a.appServicePlan THEN <<>> ELSE <<"appServicePlan">>)

\* the resources the constructor registers for what the caller did not supply
DefaultResources(a) ==
    (IF a.storageAccount THEN <<>> ELSE <<"storageAccount">>)
    \o (IF a.storageContainer THEN <<>> ELSE <<"storageContainer">>)
    \o (IF a.appServicePlan THEN <<>> ELSE <<"appServicePlan">>)

\* the EventSubscription constructor: the resources it registers, in order, the
\* asynchronous work it starts, and the error it throws
EventSubscription(rev, a) ==
    LET afterSuper == <<"componentResource">>
    IN IF ResourceGroupMissing(a)
       THEN [state |-> "threw", thrown |-> ResourceGroupError,
             registered |-> afterSuper, started |-> {}, serializeCallback |-> "notCalled"]
       ELSE LET defaults == afterSuper \o DefaultResources(a)
                sc == IF rev = "part_001" THEN serializeCallback_part001(a)
                      ELSE serializeCallback(a)
            IN IF sc.thrown # "none"
               THEN [state |-> "threw", thrown |-> sc.thrown,
                     registered |-> defaults, started |-> sc.started,
                     serializeCallback |-> "threw"]
               ELSE [state |-> "returned", thrown |-> "none",
                     registered |-> defaults \o <<"zipBlob", "functionApp">>,
                     started |-> sc.started, serializeCallback |-> "returned"]

\* the container the doc comment of args.storageContainer names as the default
RootContainer == "$root"

\* this.storageContainer: the caller's, or the one the constructor makes
StorageContainerOf(a) ==
    IF a.storageContainer THEN "args.storageContainer" ELSE "new azure.storage.Container"

\* storageContainerName of the ZipBlob the constructor registers
ZipBlobContainer(a) == StorageContainerOf(a)

\* the arguments of the storage account and of the plan the constructor makes
NewAccountArgs ==
    [accountKind |-> "StorageV2", accountTier |-> "Standard", accountReplicationType |-> "LRS"]
NewPlanArgs == [kind |-> "FunctionApp", sku |-> [tier |-> "Dynamic", size |-> "Y1"]]

\* this.storageAccount and this.appServicePlan: the caller's, or the one the constructor makes
StorageAccountOf(a) ==
    IF a.storageAccount THEN [from |-> "args.storageAccount"]
    ELSE [from |-> "new azure.storage.Account", args |-> NewAccountArgs]
AppServicePlanOf(a) ==
    IF a.appServicePlan THEN [from |-> "args.appServicePlan"]
    ELSE [from |-> "new azure.appservice.Plan", args |-> NewPlanArgs]

\* what the constructor hands to the ZipBlob, to signedBlobReadUrl and to the FunctionApp
ZipBlobArgs(a) ==
    [storageAccountName |-> StorageAccountOf(a), storageContainerName |-> ZipBlobContainer(a),
     type |-> "block"]
SignedBlobReadUrlArgs(a) ==
    [blob |-> "zipBlob", account |-> StorageAccountOf(a), container |-> StorageContainerOf(a)]
FunctionAppArgs(a) ==
    [appServicePlanId |-> AppServicePlanOf(a), storageConnectionString |-> StorageAccountOf(a)]

NotConstructed ==
    [state |-> "notCalled", thrown |-> "none", registered |-> <<>>, started |-> {},
     serializeCallback |-> "notCalled"]

Registered == {ctor.registered[i] : i \in 1..Len(ctor.registered)}

\* what the engine needs before it can provision a registered resource
AccountReady == args.storageAccount \/ "storageAccount" \in created
ContainerReady == args.storageContainer \/ "storageContainer" \in created
PlanReady == args.appServicePlan \/ "appServicePlan" \in created

Ready(resource) ==
    CASE resource = "componentResource" -> TRUE
      [] resource = "storageAccount" -> TRUE
      [] resource = "storageContainer" -> AccountReady
      [] resource = "appServicePlan" -> TRUE
      [] resource = "zipBlob" -> AccountReady /\ ContainerReady /\ assetMap = "built"
      [] resource = "functionApp" -> AccountReady /\ PlanReady /\ codeBlobUrl = "resolved"

\* an apply that does not wait for the path set
AssetMapOutcome_IgnoringPathSet ==
    IF serializedHandler = "rejected"
    THEN "rejected"
    ELSE IF /\ bindings = "resolved"
            /\ serializedHandler = "resolved"
    THEN "built"
    ELSE "pending"

\* an apply that does not wait for the bindings
AssetMapOutcome_IgnoringBindings ==
    IF \/ serializedHandler = "rejected"
       \/ pathSetPromise.state = "rejected"
    THEN "rejected"
    ELSE IF /\ serializedHandler = "resolved"
            /\ pathSetPromise.state = "resolved"
    THEN "built"
    ELSE "pending"

\* the Output pulumi.all([bindings, serializedHandler, pathSet]).apply(...) settles to
AssetMapOutcome ==
    IF \/ serializedHandler = "rejected"
       \/ pathSetPromise.state = "rejected"
    THEN "rejected"
    ELSE IF /\ bindings = "resolved"
            /\ serializedHandler = "resolved"
            /\ pathSetPromise.state = "resolved"
    THEN "built"
    ELSE "pending"

----------------------------------------------------------------------------
(* subscription.ts: the AssetMap the apply callback of serializeCallback builds *)

HostJson == <<"h", "o", "s", "t", ".", "j", "s", "o", "n">>
FunctionJson == <<"f", "u", "n", "c", "t", "i", "o", "n", ".", "j", "s", "o", "n">>
IndexJs == <<"i", "n", "d", "e", "x", ".", "j", "s">>
HandlerJs == <<"h", "a", "n", "d", "l", "e", "r", ".", "j", "s">>

\* names a subscription is constructed with
FunctionNames == {<<"f">>, HostJson, <<"f", "/", "g">>}

\* folder names joined by "/"
RECURSIVE JoinSegments(_)
JoinSegments(path) ==
    IF Len(path) = 1 THEN path[1]
    ELSE JoinSegments(Dirname(path)) \o Slash \o Basename(path)

\* the forms in which a tree reader can hand out the path of a folder: relative to the
\* folder it was started in ("."), or from the root of the disk
PathForms == {"relative", "absolute"}

\* the string child.path holds for a folder below the project folder
PathString(path) ==
    IF pathForm = "relative" THEN JoinSegments(Tail(path))
    ELSE Slash \o JoinSegments(path)

\* what a package folder is on disk: a directory, or a symbolic link to one
\* (npm link, a workspace, a store-based installer)
FolderKinds == {"directory", "symlink"}

\* fs.lstatSync(path).isDirectory(): lstat does not follow a symbolic link
LstatIsDirectory(path) == fileSystem[path] = "directory"

\* fs.statSync(path).isDirectory(): what the path resolves to; a package folder,
\* linked or not, resolves to a directory
ResolvesToDirectory(path) == fileSystem[path] \in {"directory", "symlink"}

StringAsset(text) == [kind |-> "StringAsset", text |-> text]
FileArchive(path) == [kind |-> "FileArchive", path |-> path]
FileAsset(path) == [kind |-> "FileAsset", path |-> path]

\* map[key] = value on a JavaScript object: a second write to a key replaces the first
MapSet(map, key, value) ==
    [k \in (DOMAIN map) \cup {key} |-> IF k = key THEN value ELSE map[k]]

\* JSON.stringify of the host configuration and of the binding manifest; a binding is
\* the sequence of its <<field, value>> pairs in the order the object literal gives them
HostJsonText == <<"{", <<"tracing", <<"consoleLevel", "verbose">>>>, "}">>
FunctionJsonText(bindingsValue) == <<"{", <<"disabled", "false">>, <<"bindings", bindingsValue>>, "}">>
IndexJsText == <<"module.exports = require(\"./handler\").handler">>
SerializedHandlerText == <<"serializedHandler.text">>

\* a writer that files every included path under the function's folder itself
PathKey_FolderOnly(n, path) == n \o Slash

\* name + "/" + path
PathKey(n, path) == n \o Slash \o PathString(path)

\* the loop over pathSet.values()
RECURSIVE ForEachPath(_, _, _, _)
ForEachPath(map, n, paths, i) ==
    IF i > Len(paths) THEN map
    ELSE LET path == paths[i]
             entry == IF LstatIsDirectory(path)
                      THEN FileArchive(PathString(path))
                      ELSE FileAsset(PathString(path))
         IN ForEachPath(MapSet(map, PathKey(n, path), entry), n, paths, i + 1)

\* the callback of pulumi.all([bindings, serializedHandler, pathSet]).apply
AssetMapOf(n, bindingsValue, handlerText, pathSet) ==
    LET host == MapSet(<<>>, HostJson, StringAsset(HostJsonText))
        manifest == MapSet(host, n \o Slash \o FunctionJson,
                           StringAsset(FunctionJsonText(bindingsValue)))
        index == MapSet(manifest, n \o Slash \o IndexJs, StringAsset(IndexJsText))
        handler == MapSet(index, n \o Slash \o HandlerJs, StringAsset(handlerText))
    IN ForEachPath(handler, n, pathSet, 1)

\* a builder whose key order follows the order in which its inputs completed
AssetKeysOf_BySettling(n, pathSet) ==
    LET fixed == <<HostJson, n \o Slash \o FunctionJson, n \o Slash \o IndexJs,
                   n \o Slash \o HandlerJs>>
        paths == [i \in 1..Len(pathSet) |-> PathKey(n, pathSet[i])]
    IN IF Len(settledOrder) > 0 /\ settledOrder[1] = "pathSet"
       THEN paths \o fixed ELSE fixed \o paths

\* the keys of the map in the order Object.keys lists them: the order of first assignment
AssetKeysOf(n, pathSet) ==
    LET fixed == <<HostJson, n \o Slash \o FunctionJson, n \o Slash \o IndexJs,
                   n \o Slash \o HandlerJs>>
        RECURSIVE AddPaths(_, _)
        AddPaths(order, i) ==
            IF i > Len(pathSet) THEN order
            ELSE AddPaths(SetAdd(order, PathKey(n, pathSet[i])), i + 1)
    IN AddPaths(fixed, 1)

NoContent == [built |-> FALSE, map |-> <<>>, order |-> <<>>]

\* a binding as the Binding interface declares it
SampleBinding == <<<<"type", "timerTrigger">>, <<"direction", "in">>, <<"name", "timer">>>>

\* the folders of the installed packages of a tree
InstalledPaths(tree) == {tree[n].path : n \in (DOMAIN tree) \ {RootNode}}

\* a disk on which every package folder is a plain directory
PlainFolders(tree) == [p \in InstalledPaths(tree) |-> "directory"]

----------------------------------------------------------------------------
(* subscription.ts: the app settings the FunctionApp is given *)

WebsiteRunFromZip == "WEBSITE_RUN_FROM_ZIP"

\* args.appSettings left out by the caller
NoSettings == [given |-> FALSE, value |-> <<>>]

\* the app settings a caller passes: none, one of its own, or one under the reserved key too
CallerSettings ==
    {NoSettings,
     [given |-> TRUE, value |-> [k \in {"FOO"} |-> <<"bar">>]],
     [given |-> TRUE, value |-> [k \in {"FOO", WebsiteRunFromZip} |->
                                    IF k = "FOO" THEN <<"bar">> ELSE <<"https://caller/zip">>]]}

\* args.appSettings || pulumi.output({})
SettingsOrEmpty(a) == IF a.given THEN a.value ELSE <<>>

\* a spread that lets the caller's settings win
SpreadSettings_CallerWins(settings, url) ==
    [k \in (DOMAIN settings) \cup {WebsiteRunFromZip} |->
        IF k \in DOMAIN settings THEN settings[k] ELSE url]

\* settings => ({ ...settings, "WEBSITE_RUN_FROM_ZIP": codeBlobUrl })
SpreadSettings(settings, url) ==
    [k \in (DOMAIN settings) \cup {WebsiteRunFromZip} |->
        IF k = WebsiteRunFromZip THEN url ELSE settings[k]]

NotProvisioned == [provisioned |-> FALSE, value |-> <<>>]

\* the value the codeBlobUrl Output holds: what the signing of this deployment returned
CodeBlobUrlValue == sasRequests[Len(sasRequests)].url

----------------------------------------------------------------------------
(* storage/account.ts: onBlobEvent *)

\* an optional string argument: left out, or given with a value
Absent == [given |-> FALSE, value |-> <<>>]
Given(value) == [given |-> TRUE, value |-> value]

\* JavaScript truthiness of an optional string: undefined and "" are both falsy
Truthy(x) == x.given /\ x.value # <<>>

\* x || ""
OrEmpty(x) == IF Truthy(x) THEN x.value ELSE <<>>

BlobNameToken == <<"{", "b", "l", "o", "b", "N", "a", "m", "e", "}">>

BlobPathError == "RunError: Either [path] or [containerName] must be present in [args]"

BindingConnectionKey == "BindingConnectionAppSettingsKey"

\* the values a caller passes for path, containerName, filterPrefix and filterSuffix
PathChoices == {Absent, Given(<<>>), Given(<<"c", "/", "x">>)}
ContainerNameChoices == {Absent, Given(<<"c">>)}
FilterPrefixChoices == {Absent, Given(<<>>), Given(<<"p">>)}
FilterSuffixChoices == {Absent, Given(<<".", "j">>)}

NoBlobArgs == [path |-> Absent, containerName |-> Absent,
               filterPrefix |-> Absent, filterSuffix |-> Absent]

\* a derivation that looks at containerName before path
BlobTriggerPath_ContainerFirst(a) ==
    IF Truthy(a.containerName)
    THEN [thrown |-> "none",
          path |-> a.containerName.value \o Slash \o OrEmpty(a.filterPrefix)
                   \o BlobNameToken \o OrEmpty(a.filterSuffix)]
    ELSE IF Truthy(a.path)
    THEN [thrown |-> "none", path |-> a.path.value]
    ELSE [thrown |-> BlobPathError, path |-> <<>>]

\* the trigger path onBlobEvent derives, or the error it throws instead
BlobTriggerPath(a) ==
    IF Truthy(a.path)
    THEN [thrown |-> "none", path |-> a.path.value]
    ELSE IF Truthy(a.containerName)
    THEN LET prefix == OrEmpty(a.filterPrefix)
             suffix == OrEmpty(a.filterSuffix)
         IN [thrown |-> "none",
             path |-> a.containerName.value \o Slash \o prefix \o BlobNameToken \o suffix]
    ELSE [thrown |-> BlobPathError, path |-> <<>>]

\* the BlobBinding object literal, field by field
BlobBinding(p, connection) ==
    <<<<"name", "blob">>, <<"type", "blobTrigger">>, <<"direction", "in">>,
      <<"dataType", "binary">>, <<"path", p>>, <<"connection", connection>>>>

\* the value of a field of a binding
Field(binding, field) ==
    binding[CHOOSE i \in 1..Len(binding) : binding[i][1] = field][2]

\* appSettings[bindingConnectionKey] = connectionString; return appSettings
WithBindingConnection(settings, connectionString) ==
    MapSet(settings, BindingConnectionKey, connectionString)

\* an onBlobEvent that writes the connection string into the binding itself
onBlobEvent_ConnectionInBinding(n, account, a) ==
    LET derived == BlobTriggerPath(a)
    IN IF derived.thrown # "none"
       THEN [state |-> "threw", thrown |-> derived.thrown, bindings |-> <<>>,
             appSettings |-> a.appSettings, subscription |-> NotConstructed]
       ELSE LET sub == EventSubscription("part_001", a.subscription)
            IN [state |-> sub.state, thrown |-> sub.thrown,
                bindings |-> <<BlobBinding(derived.path, account.primaryConnectionString)>>,
                appSettings |-> a.appSettings, subscription |-> sub]

\* onBlobEvent(name, account, args): the bindings Output it builds, the appSettings it
\* leaves in args, and the BlobEventSubscription it constructs
onBlobEvent(n, account, a) ==
    LET derived == BlobTriggerPath(a)
    IN IF derived.thrown # "none"
       THEN [state |-> "threw", thrown |-> derived.thrown, bindings |-> <<>>,
             appSettings |-> a.appSettings, subscription |-> NotConstructed]
       ELSE LET sub == EventSubscription("part_001", a.subscription)
            IN [state |-> sub.state, thrown |-> sub.thrown,
                bindings |-> <<BlobBinding(derived.path, BindingConnectionKey)>>,
                appSettings |-> Given(WithBindingConnection(SettingsOrEmpty(a.appSettings),
                                                            account.primaryConnectionString)),
                subscription |-> sub]

NotCalled == [state |-> "notCalled", thrown |-> "none"]

----------------------------------------------------------------------------
(* blob.ts: onEvent, by blob and by account and path *)

GetAccountError == "getAccount rejected"

\* onEvent(name, blob, callback, args) once getAccount has answered: the binding its
\* apply callback builds and the BlobEventSubscription it constructs
onEvent(n, blob, accountResult, a) ==
    LET binding == BlobBinding(blob.storageContainerName \o Slash \o blob.name,
                               accountResult.primaryConnectionString)
        sub == EventSubscription("subscription.ts", a)
    IN [state |-> sub.state, thrown |-> sub.thrown, bindings |-> <<binding>>,
        subscription |-> sub]

\* onEvent(name, account, path, callback, args)
onEventOfPath(n, account, path, a) ==
    LET binding == BlobBinding(path, account.primaryConnectionString)
        sub == EventSubscription("subscription.ts", a)
    IN [state |-> sub.state, thrown |-> sub.thrown, bindings |-> <<binding>>,
        subscription |-> sub]

\* what a caller of onEvent passes: a blob of a container, or an account and a path
OnEventCalls ==
    {[form |-> "blob", path |-> <<>>, storageContainerName |-> <<"c">>, name |-> b] :
        b \in {<<"x">>, <<"y">>}}
    \cup {[form |-> "path", path |-> p, storageContainerName |-> <<>>, name |-> <<>>] :
            p \in {<<"c", "/", "x">>, <<"c", "/", "{", "n", "}">>}}

\* the arguments of the call, as one object
BlobEventSubscriptionArgs ==
    [path |-> blobArgs.path, containerName |-> blobArgs.containerName,
     filterPrefix |-> blobArgs.filterPrefix, filterSuffix |-> blobArgs.filterSuffix,
     appSettings |-> appSettings, subscription |-> args]

NoLookup == [called |-> FALSE, root |-> NoNode, name |-> <<>>, result |-> NoNode]

\* the names findDependency is asked for
LookupNames == DepNames \cup {<<"x">>}

----------------------------------------------------------------------------
(* Actions *)

\* the caller runs new EventSubscription(type, name, ..., args)
Construct ==
    /\ ctor.state = "notCalled"
    /\ ctor' = EventSubscription(revision, args)
    /\ UNCHANGED <<packageTree, readError, includedPackages, excludedPackages,
                   pathSetPromise, revision, args, created, serializedHandler,
                   bindings, assetMap, codeBlobUrl, sasRequests>>
    /\ UNCHANGED <<functionName, fileSystem, zipContent, appSettings, functionAppSettings,
                   primaryConnectionString, bindingList, blobArgs, blobSubscription, lookup>>
    /\ UNCHANGED <<settledOrder, pathForm, settingsObject, subscriptions>>

\* readPackageTree calls back into allFoldersForPackages
ReadPackageTreeCallback ==
    /\ "readPackageTree" \in ctor.started
    /\ pathSetPromise.state = "pending"
    /\ pathSetPromise' = allFoldersForPackages(includedPackages, excludedPackages)
    /\ UNCHANGED <<packageTree, readError, includedPackages, excludedPackages,
                   revision, args, ctor, created, serializedHandler, bindings,
                   assetMap, codeBlobUrl, sasRequests>>
    /\ UNCHANGED <<functionName, fileSystem, zipContent, appSettings, functionAppSettings,
                   primaryConnectionString, bindingList, blobArgs, blobSubscription, lookup>>
    /\ settledOrder' = Append(settledOrder, "pathSet")
    /\ UNCHANGED <<pathForm, settingsObject, subscriptions>>

\* pulumi.runtime.computeCodePaths settles (part_001)
ComputeCodePathsSettles ==
    /\ "computeCodePaths" \in ctor.started
    /\ pathSetPromise.state = "pending"
    /\ \E outcome \in {"resolved", "rejected"} :
        pathSetPromise' = [Pending EXCEPT !.state = outcome,
                                          !.error = IF outcome = "rejected"
                                                    THEN "computeCodePaths" ELSE "none"]
    /\ UNCHANGED <<packageTree, readError, includedPackages, excludedPackages,
                   revision, args, ctor, created, serializedHandler, bindings,
                   assetMap, codeBlobUrl, sasRequests>>
    /\ UNCHANGED <<functionName, fileSystem, zipContent, appSettings, functionAppSettings,
                   primaryConnectionString, bindingList, blobArgs, blobSubscription, lookup>>
    /\ settledOrder' = Append(settledOrder, "pathSet")
    /\ UNCHANGED <<pathForm, settingsObject, subscriptions>>

\* pulumi.runtime.serializeFunction settles
SerializeFunctionSettles ==
    /\ "serializeFunction" \in ctor.started
    /\ serializedHandler = "pending"
    /\ serializedHandler' \in {"resolved", "rejected"}
    /\ UNCHANGED <<packageTree, readError, includedPackages, excludedPackages,
                   pathSetPromise, revision, args, ctor, created, bindings,
                   assetMap, codeBlobUrl, sasRequests>>
    /\ UNCHANGED <<functionName, fileSystem, zipContent, appSettings, functionAppSettings,
                   primaryConnectionString, bindingList, blobArgs, blobSubscription, lookup>>
    /\ settledOrder' = Append(settledOrder, "serializedHandler")
    /\ UNCHANGED <<pathForm, settingsObject, subscriptions>>

\* the bindings Output becomes known
BindingsResolve ==
    /\ ctor.state = "returned"
    /\ bindings = "pending"
    /\ bindings' = "resolved"
    /\ UNCHANGED <<packageTree, readError, includedPackages, excludedPackages,
                   pathSetPromise, revision, args, ctor, created, serializedHandler,
                   assetMap, codeBlobUrl, sasRequests>>
    /\ UNCHANGED <<functionName, fileSystem, zipContent, appSettings, functionAppSettings,
                   primaryConnectionString, bindingList, blobArgs, blobSubscription, lookup>>
    /\ settledOrder' = Append(settledOrder, "bindings")
    /\ UNCHANGED <<pathForm, settingsObject, subscriptions>>

\* the apply callback of serializeCallback runs, or the Output takes a rejection
AssetMapSettles ==
    /\ ctor.state = "returned"
    /\ assetMap = "pending"
    /\ AssetMapOutcome # "pending"
    /\ assetMap' = AssetMapOutcome
    /\ zipContent' = IF AssetMapOutcome = "built"
                     THEN [built |-> TRUE,
                           map |-> AssetMapOf(functionName, bindingList, SerializedHandlerText,
                                              pathSetPromise.packagePaths),
                           order |-> AssetKeysOf(functionName, pathSetPromise.packagePaths)]
                     ELSE zipContent
    /\ UNCHANGED <<packageTree, readError, includedPackages, excludedPackages,
                   pathSetPromise, revision, args, ctor, created, serializedHandler,
                   bindings, codeBlobUrl, sasRequests>>
    /\ UNCHANGED <<functionName, fileSystem, appSettings, functionAppSettings,
                   primaryConnectionString, bindingList, blobArgs, blobSubscription, lookup>>
    /\ UNCHANGED <<settledOrder, pathForm, settingsObject, subscriptions>>

\* the engine provisions a registered resource whose inputs are known
Provision ==
    /\ \E resource \in Registered \ created :
        /\ Ready(resource)
        /\ created' = created \cup {resource}
        /\ functionAppSettings' =
               IF resource = "functionApp"
               THEN [provisioned |-> TRUE,
                     value |-> SpreadSettings(SettingsOrEmpty(appSettings), CodeBlobUrlValue)]
               ELSE functionAppSettings
    /\ UNCHANGED <<packageTree, readError, includedPackages, excludedPackages,
                   pathSetPromise, revision, args, ctor, serializedHandler, bindings,
                   assetMap, codeBlobUrl, sasRequests>>
    /\ UNCHANGED <<functionName, fileSystem, zipContent, appSettings, primaryConnectionString,
                   bindingList, blobArgs, blobSubscription, lookup>>
    /\ UNCHANGED <<settledOrder, pathForm, settingsObject, subscriptions>>

\* the apply callback of signedBlobReadUrl runs once blob.url and the connection string
\* are known; getAccountSAS answers or fails
SignCodeBlob ==
    /\ "zipBlob" \in created
    /\ AccountReady
    /\ codeBlobUrl = "pending"
    /\ \E env \in Environments, outcome \in {"resolved", "rejected"} :
        LET connectionString == primaryConnectionString
            containerName == CHOOSE c \in ContainerNames : TRUE
            blobName == CHOOSE b \in BlobNames : TRUE
            result == signedBlobReadUrl(BlobUrl(containerName, blobName),
                                        connectionString, env)
        IN /\ sasRequests' = Append(sasRequests,
                                 Signing(connectionString, containerName, blobName, env, result))
           /\ codeBlobUrl' = outcome
    /\ UNCHANGED <<packageTree, readError, includedPackages, excludedPackages,
                   pathSetPromise, revision, args, ctor, created, serializedHandler,
                   bindings, assetMap>>
    /\ UNCHANGED <<functionName, fileSystem, zipContent, appSettings, functionAppSettings,
                   primaryConnectionString, bindingList, blobArgs, blobSubscription, lookup>>
    /\ UNCHANGED <<settledOrder, pathForm, settingsObject, subscriptions>>

\* a build calls signedBlobReadUrl of util.ts
SignUtil ==
    /\ Len(sasRequests) < MaxSignings
    /\ \E connectionString \in ConnectionStrings, containerName \in ContainerNames,
          blobName \in BlobNames, env \in Environments :
        sasRequests' = Append(sasRequests,
            Signing(connectionString, containerName, blobName, env,
                    signedBlobReadUrl(BlobUrl(containerName, blobName), connectionString, env)))
    /\ UNCHANGED <<packageTree, readError, includedPackages, excludedPackages,
                   pathSetPromise, revision, args, ctor, created, serializedHandler,
                   bindings, assetMap, codeBlobUrl>>
    /\ UNCHANGED <<functionName, fileSystem, zipContent, appSettings, functionAppSettings,
                   primaryConnectionString, bindingList, blobArgs, blobSubscription, lookup>>
    /\ UNCHANGED <<settledOrder, pathForm, settingsObject, subscriptions>>

\* a build calls signedBlobReadUrl of functionApp.ts
SignFunctionApp ==
    /\ Len(sasRequests) < MaxSignings
    /\ \E connectionString \in ConnectionStrings, containerName \in ContainerNames,
          blobName \in BlobNames, env \in Environments :
        sasRequests' = Append(sasRequests,
            Signing(connectionString, containerName, blobName, env,
                    signedBlobReadUrl_functionApp(connectionString, containerName,
                                                  blobName, env)))
    /\ UNCHANGED <<packageTree, readError, includedPackages, excludedPackages,
                   pathSetPromise, revision, args, ctor, created, serializedHandler,
                   bindings, assetMap, codeBlobUrl>>
    /\ UNCHANGED <<functionName, fileSystem, zipContent, appSettings, functionAppSettings,
                   primaryConnectionString, bindingList, blobArgs, blobSubscription, lookup>>
    /\ UNCHANGED <<settledOrder, pathForm, settingsObject, subscriptions>>

\* the caller runs onBlobEvent(name, account, args)
OnBlobEvent ==
    /\ blobSubscription.state = "notCalled"
    /\ ctor.state = "notCalled"
    /\ LET r == onBlobEvent(functionName, [primaryConnectionString |-> primaryConnectionString],
                            BlobEventSubscriptionArgs)
       IN /\ blobSubscription' = [state |-> r.state, thrown |-> r.thrown]
          /\ bindingList' = r.bindings
          /\ appSettings' = r.appSettings
          /\ ctor' = r.subscription
    /\ UNCHANGED <<packageTree, readError, includedPackages, excludedPackages,
                   pathSetPromise, revision, args, created, serializedHandler,
                   bindings, assetMap, codeBlobUrl, sasRequests>>
    /\ UNCHANGED <<functionName, fileSystem, zipContent, functionAppSettings,
                   primaryConnectionString, blobArgs, lookup>>
    /\ UNCHANGED <<settledOrder, pathForm, settingsObject, subscriptions>>

\* the URL the function app of the i-th subscription runs from
CodeBlobUrlOf(i) == <<"codeBlobUrl", i>>

\* the caller runs onBlobEvent(name, account, args) once more, on any account, with
\* args whose appSettings is the Output the earlier calls were given
OnBlobEventShared ==
    /\ Len(subscriptions) < MaxSubscriptions
    /\ \E connectionString \in ConnectionStrings :
        LET r == onBlobEvent(functionName, [primaryConnectionString |-> connectionString],
                             BlobEventSubscriptionArgs)
        IN subscriptions' =
               Append(subscriptions,
                      [account |-> connectionString, state |-> r.state, bindings |-> r.bindings,
                       stage |-> IF r.state = "returned" THEN "called" ELSE "threw",
                       functionAppSettings |-> NotProvisioned])
    /\ UNCHANGED <<packageTree, readError, includedPackages, excludedPackages,
                   pathSetPromise, revision, args, ctor, created, serializedHandler,
                   bindings, assetMap, codeBlobUrl, sasRequests>>
    /\ UNCHANGED <<functionName, fileSystem, zipContent, appSettings, functionAppSettings,
                   primaryConnectionString, bindingList, blobArgs, blobSubscription, lookup>>
    /\ UNCHANGED <<settledOrder, pathForm, settingsObject>>

\* the apply callback of onBlobEvent runs for a subscription: it assigns into the object
\* the appSettings Output holds and returns that object
BindingConnectionApply ==
    /\ \E i \in 1..Len(subscriptions) :
        /\ subscriptions[i].stage = "called"
        /\ settingsObject' = WithBindingConnection(settingsObject, subscriptions[i].account)
        /\ subscriptions' = [subscriptions EXCEPT ![i].stage = "assigned"]
    /\ UNCHANGED <<packageTree, readError, includedPackages, excludedPackages,
                   pathSetPromise, revision, args, ctor, created, serializedHandler,
                   bindings, assetMap, codeBlobUrl, sasRequests>>
    /\ UNCHANGED <<functionName, fileSystem, zipContent, appSettings, functionAppSettings,
                   primaryConnectionString, bindingList, blobArgs, blobSubscription, lookup>>
    /\ UNCHANGED <<settledOrder, pathForm>>

\* the apply callback of the constructor runs for a subscription: it spreads the object
\* it is handed into the appSettings of the function app
AppSettingsApply ==
    /\ \E i \in 1..Len(subscriptions) :
        /\ subscriptions[i].stage = "assigned"
        /\ subscriptions' =
               [subscriptions EXCEPT
                   ![i].stage = "spread",
                   ![i].functionAppSettings =
                       [provisioned |-> TRUE,
                        value |-> SpreadSettings(settingsObject, CodeBlobUrlOf(i))]]
    /\ UNCHANGED <<packageTree, readError, includedPackages, excludedPackages,
                   pathSetPromise, revision, args, ctor, created, serializedHandler,
                   bindings, assetMap, codeBlobUrl, sasRequests>>
    /\ UNCHANGED <<functionName, fileSystem, zipContent, appSettings, functionAppSettings,
                   primaryConnectionString, bindingList, blobArgs, blobSubscription, lookup>>
    /\ UNCHANGED <<settledOrder, pathForm, settingsObject>>

\* the caller runs onEvent(name, blob, callback, args); getAccount answers or fails
OnEventOfBlob ==
    /\ blobArgs.form = "blob"
    /\ blobSubscription.state = "notCalled"
    /\ ctor.state = "notCalled"
    /\ \E found \in BOOLEAN :
        IF found
        THEN LET r == onEvent(functionName,
                              [storageContainerName |-> blobArgs.storageContainerName,
                               name |-> blobArgs.name],
                              [primaryConnectionString |-> primaryConnectionString], args)
             IN /\ blobSubscription' = [state |-> r.state, thrown |-> r.thrown]
                /\ bindingList' = r.bindings
                /\ ctor' = r.subscription
        ELSE /\ blobSubscription' = [state |-> "rejected", thrown |-> GetAccountError]
             /\ UNCHANGED <<bindingList, ctor>>
    /\ UNCHANGED <<packageTree, readError, includedPackages, excludedPackages,
                   pathSetPromise, revision, args, created, serializedHandler,
                   bindings, assetMap, codeBlobUrl, sasRequests>>
    /\ UNCHANGED <<functionName, fileSystem, zipContent, appSettings, functionAppSettings,
                   primaryConnectionString, blobArgs, lookup>>
    /\ UNCHANGED <<settledOrder, pathForm, settingsObject, subscriptions>>

\* the caller runs onEvent(name, account, path, callback, args)
OnEventOfPath ==
    /\ blobArgs.form = "path"
    /\ blobSubscription.state = "notCalled"
    /\ ctor.state = "notCalled"
    /\ LET r == onEventOfPath(functionName,
                              [primaryConnectionString |-> primaryConnectionString],
                              blobArgs.path, args)
       IN /\ blobSubscription' = [state |-> r.state, thrown |-> r.thrown]
          /\ bindingList' = r.bindings
          /\ ctor' = r.subscription
    /\ UNCHANGED <<packageTree, readError, includedPackages, excludedPackages,
                   pathSetPromise, revision, args, created, serializedHandler,
                   bindings, assetMap, codeBlobUrl, sasRequests>>
    /\ UNCHANGED <<functionName, fileSystem, zipContent, appSettings, functionAppSettings,
                   primaryConnectionString, blobArgs, lookup>>
    /\ UNCHANGED <<settledOrder, pathForm, settingsObject, subscriptions>>

\* a walk calls findDependency(root, name)
FindDependency ==
    /\ ~lookup.called
    /\ \E root \in Nodes, n \in LookupNames :
        lookup' = [called |-> TRUE, root |-> root, name |-> n,
                   result |-> findDependency(root, n)]
    /\ UNCHANGED <<packageTree, readError, includedPackages, excludedPackages,
                   pathSetPromise, revision, args, ctor, created, serializedHandler,
                   bindings, assetMap, codeBlobUrl, sasRequests>>
    /\ UNCHANGED <<functionName, fileSystem, zipContent, appSettings, functionAppSettings,
                   primaryConnectionString, bindingList, blobArgs, blobSubscription>>
    /\ UNCHANGED <<settledOrder, pathForm, settingsObject, subscriptions>>

----------------------------------------------------------------------------
(* Specifications *)

AllArgs == [resourceGroup : BOOLEAN, storageAccount : BOOLEAN, storageContainer : BOOLEAN,
            appServicePlan : BOOLEAN, func : BOOLEAN, factoryFunc : BOOLEAN]

\* a caller that supplies the resource group and a callback and nothing else
PlainArgs == [resourceGroup |-> TRUE, storageAccount |-> FALSE, storageContainer |-> FALSE,
              appServicePlan |-> FALSE, func |-> TRUE, factoryFunc |-> FALSE]

\* subscription.ts takes the callback as a parameter of its own: it is always there
ArgsOf(rev) ==
    IF rev = "part_001" THEN AllArgs
    ELSE {a \in AllArgs : a.func /\ ~a.factoryFunc}

TopLevel(pkg) == [parent |-> RootNode, pkg |-> pkg]
\* the dependency declarations of the root and of nodes 1, 2, ... in that order
Declared(list) == [i \in 0..(Len(list) - 1) |-> list[i + 1]]

EmptyTree == MakeTree(0, <<>>, Declared(<<<<>>>>), <<>>, <<>>)

\* the projects a deployment is run on: nothing installed; one dependency; a dependency
\* with a dependency of its own and one that is not installed; two packages that
\* depend on each other
DeployTrees ==
    {EmptyTree,
     MakeTree(1, <<TopLevel(NameA)>>, Declared(<<<<NameA>>, <<>>>>), <<>>, <<>>),
     MakeTree(2, <<TopLevel(NameA), TopLevel(NameB)>>,
              Declared(<<<<NameA, NameC>>, <<NameB>>, <<>>>>), <<>>, <<>>),
     MakeTree(2, <<TopLevel(NameA), TopLevel(NameB)>>,
              Declared(<<<<NameA>>, <<NameB>>, <<NameA>>>>), <<>>, <<>>)}

DefaultName == <<"f">>

\* no call of onBlobEvent or findDependency is under way and nothing is provisioned
NoBlobEvent ==
    /\ functionAppSettings = NotProvisioned
    /\ bindingList = <<SampleBinding>>
    /\ blobArgs = NoBlobArgs
    /\ blobSubscription = NotCalled
    /\ lookup = NoLookup

NoSubscriptions == <<>>

\* one subscription on its own: nothing has completed, no settings object is shared
Alone ==
    /\ settledOrder = <<>>
    /\ settingsObject = <<>>
    /\ subscriptions = NoSubscriptions

\* no asset map is built yet, from a disk of plain directories
PlainPackaging ==
    /\ pathForm = "relative"
    /\ functionName = DefaultName
    /\ fileSystem = PlainFolders(packageTree)
    /\ zipContent = NoContent

\* the constructor of subscription.ts has returned for a caller of plain arguments,
\* and none of the work it started has called back yet
Constructed ==
    /\ readError = "none"
    /\ pathSetPromise = Pending
    /\ revision = "subscription.ts"
    /\ args = PlainArgs
    /\ ctor = EventSubscription("subscription.ts", PlainArgs)
    /\ created = {}
    /\ serializedHandler = "pending"
    /\ bindings = "pending"
    /\ assetMap = "pending"
    /\ codeBlobUrl = "pending"
    /\ sasRequests = <<>>
    /\ appSettings = NoSettings
    /\ primaryConnectionString = "AccountKey=k1"
    /\ NoBlobEvent
    /\ Alone

\* the state serializeCallback of subscription.ts leaves when it has called
\* allFoldersForPackages(included, excluded) and nothing has called back yet
WalkStarted ==
    /\ Constructed
    /\ PlainPackaging

\* serializeCallback's own call: both sets empty, any tree of MaxNodes packages
InitResolve ==
    /\ IsTreeWith(packageTree, MaxNodes, MaxRootDeps, {<<>>}, {<<>>})
    /\ includedPackages = <<>>
    /\ excludedPackages = {}
    /\ WalkStarted

NextResolve == ReadPackageTreeCallback

SpecResolve == InitResolve /\ [][NextResolve]_vars

\* allFoldersForPackages with the sets a caller can pass
InitResolveArgs ==
    /\ IsTreeWith(packageTree, MaxArgNodes, MaxRootDeps, {<<>>}, {<<>>})
    /\ includedPackages \in KeySeqs(DepNames, MaxIncluded)
    /\ excludedPackages \in {e \in SUBSET DepNames : Cardinality(e) <= MaxExcluded}
    /\ WalkStarted

SpecResolveArgs == InitResolveArgs /\ [][NextResolve]_vars

\* a root project that also declares development-only or peer-only dependencies
InitResolveDev ==
    /\ \E dev \in KeySeqs(InstallNames, MaxDevDeps), peer \in KeySeqs(InstallNames, MaxDevDeps) :
        /\ Len(dev) + Len(peer) <= MaxDevDeps
        /\ IsTreeWith(packageTree, MaxArgNodes, MaxRootDeps, {dev}, {peer})
    /\ includedPackages \in KeySeqs(DepNames, MaxIncluded)
    /\ excludedPackages = {}
    /\ WalkStarted

SpecResolveDev == InitResolveDev /\ [][NextResolve]_vars

\* one deployment: the caller constructs one EventSubscription and the engine runs it
InitDeploy ==
    /\ packageTree \in DeployTrees
    /\ readError \in {"none", "EJSONPARSE"}
    /\ includedPackages = <<>>
    /\ excludedPackages = {}
    /\ pathSetPromise = Pending
    /\ revision \in Revisions
    /\ args \in ArgsOf(revision)
    /\ ctor = NotConstructed
    /\ created = {}
    /\ serializedHandler = "pending"
    /\ bindings = "pending"
    /\ assetMap = "pending"
    /\ codeBlobUrl = "pending"
    /\ sasRequests = <<>>
    /\ appSettings \in CallerSettings
    /\ primaryConnectionString \in ConnectionStrings
    /\ PlainPackaging
    /\ NoBlobEvent
    /\ Alone

NextDeploy ==
    \/ Construct
    \/ ReadPackageTreeCallback
    \/ ComputeCodePathsSettles
    \/ SerializeFunctionSettles
    \/ BindingsResolve
    \/ AssetMapSettles
    \/ Provision
    \/ SignCodeBlob

SpecDeploy == InitDeploy /\ [][NextDeploy]_vars

\* builds that sign, each on a machine with its own clock and time zone
InitSign ==
    /\ packageTree = EmptyTree
    /\ readError = "none"
    /\ includedPackages = <<>>
    /\ excludedPackages = {}
    /\ pathSetPromise = Pending
    /\ revision = "subscription.ts"
    /\ args = PlainArgs
    /\ ctor = NotConstructed
    /\ created = {}
    /\ serializedHandler = "pending"
    /\ bindings = "pending"
    /\ assetMap = "pending"
    /\ codeBlobUrl = "pending"
    /\ sasRequests = <<>>
    /\ appSettings = NoSettings
    /\ primaryConnectionString = "AccountKey=k1"
    /\ PlainPackaging
    /\ NoBlobEvent
    /\ Alone

NextSign ==
    \/ SignUtil
    \/ SignFunctionApp

SpecSign == InitSign /\ [][NextSign]_vars

\* names whose scope is, or only looks like, that of the deployment framework
NamePulumixY == <<"@", "p", "u", "l", "u", "m", "i", "x", "/", "y">>
ScopedOrder == <<NameA, NamePulumiX, NamePulumixY>>
ScopedNames == {ScopedOrder[i] : i \in 1..Len(ScopedOrder)}

\* top-level installations of k of those packages, in folder order
ScopedLayouts(k) ==
    {lay \in [1..k -> [parent : {RootNode}, pkg : ScopedNames]] :
        \A i \in 1..(k - 1) :
            (CHOOSE j \in 1..Len(ScopedOrder) : ScopedOrder[j] = lay[i].pkg)
                < (CHOOSE j \in 1..Len(ScopedOrder) : ScopedOrder[j] = lay[i + 1].pkg)}

\* the walk over projects that install and declare scoped packages
InitResolveScoped ==
    /\ \E k \in 0..MaxScopedNodes : \E lay \in ScopedLayouts(k) :
        \E deps \in [0..k -> KeySeqs(ScopedNames, MaxRootDeps)] :
            /\ \A i \in 1..k : Len(deps[i]) <= MaxDeps
            /\ \A i \in 1..k : \A j \in 1..Len(deps[i]) : deps[i][j] # lay[i].pkg
            /\ packageTree = MakeTree(k, lay, deps, <<>>, <<>>)
    /\ includedPackages = <<>>
    /\ excludedPackages \in {e \in SUBSET ScopedNames : Cardinality(e) <= MaxExcluded}
    /\ WalkStarted

SpecResolveScoped == InitResolveScoped /\ [][NextResolve]_vars

\* the packaging of subscription.ts: any tree of MaxArgNodes packages, on a disk where
\* a package folder is a directory or a link to one, under any of the function names
InitPackage ==
    /\ IsTreeWith(packageTree, MaxArgNodes, MaxPackagedRootDeps, {<<>>}, {<<>>})
    /\ includedPackages = <<>>
    /\ excludedPackages = {}
    /\ Constructed
    /\ pathForm \in PathForms
    /\ functionName \in FunctionNames
    /\ fileSystem \in [InstalledPaths(packageTree) -> FolderKinds]
    /\ zipContent = NoContent

NextPackage ==
    \/ ReadPackageTreeCallback
    \/ SerializeFunctionSettles
    \/ BindingsResolve
    \/ AssetMapSettles

SpecPackage == InitPackage /\ [][NextPackage]_vars

\* the callers of onBlobEvent
BlobCallers == {PlainArgs, [PlainArgs EXCEPT !.resourceGroup = FALSE]}

\* one call of onBlobEvent and the deployment of the subscription it constructs
InitBlob ==
    /\ packageTree = EmptyTree
    /\ readError = "none"
    /\ includedPackages = <<>>
    /\ excludedPackages = {}
    /\ pathSetPromise = Pending
    /\ revision = "part_001"
    /\ args \in BlobCallers
    /\ ctor = NotConstructed
    /\ created = {}
    /\ serializedHandler = "pending"
    /\ bindings = "pending"
    /\ assetMap = "pending"
    /\ codeBlobUrl = "pending"
    /\ sasRequests = <<>>
    /\ appSettings \in CallerSettings
    /\ primaryConnectionString \in ConnectionStrings
    /\ PlainPackaging
    /\ functionAppSettings = NotProvisioned
    /\ bindingList = <<>>
    /\ blobArgs \in [path : PathChoices, containerName : ContainerNameChoices,
                      filterPrefix : FilterPrefixChoices, filterSuffix : FilterSuffixChoices]
    /\ blobSubscription = NotCalled
    /\ lookup = NoLookup
    /\ Alone

NextBlob ==
    \/ OnBlobEvent
    \/ ComputeCodePathsSettles
    \/ SerializeFunctionSettles
    \/ BindingsResolve
    \/ AssetMapSettles
    \/ Provision
    \/ SignCodeBlob

SpecBlob == InitBlob /\ [][NextBlob]_vars

\* the names a node can carry in its name property: that of its folder, or one its
\* package.json gives it
StoredNames(folderName) == {folderName, <<"x">>, NamePulumiX}

\* the tree with the name property of node i replaced by stored[i]
Renamed(tree, stored) ==
    [i \in DOMAIN tree |-> IF i = RootNode THEN tree[i] ELSE [tree[i] EXCEPT !.name = stored[i]]]

\* findDependency on any installed tree of MaxFindNodes packages, from any node
InitFind ==
    /\ \E k \in 0..MaxFindNodes : \E lay \in Layouts(k) :
        \E stored \in [1..k -> UNION {StoredNames(n) : n \in InstallNames \cup {<<"x">>}}] :
            /\ \A i \in 1..k : stored[i] \in StoredNames(Basename(LayoutPath(lay, i)))
            /\ packageTree = Renamed(MakeTree(k, lay, [i \in 0..k |-> <<>>], <<>>, <<>>), stored)
    /\ includedPackages = <<>>
    /\ excludedPackages = {}
    /\ WalkStarted

NextFind == FindDependency

SpecFind == InitFind /\ [][NextFind]_vars

\* the settings a caller hands to more than one call of onBlobEvent
SharedSettings == {a \in CallerSettings : a.given}

\* calls of onBlobEvent whose args hold one and the same appSettings Output
InitShared ==
    /\ packageTree = EmptyTree
    /\ readError = "none"
    /\ includedPackages = <<>>
    /\ excludedPackages = {}
    /\ pathSetPromise = Pending
    /\ revision = "part_001"
    /\ args \in BlobCallers
    /\ ctor = NotConstructed
    /\ created = {}
    /\ serializedHandler = "pending"
    /\ bindings = "pending"
    /\ assetMap = "pending"
    /\ codeBlobUrl = "pending"
    /\ sasRequests = <<>>
    /\ appSettings \in SharedSettings
    /\ primaryConnectionString = "AccountKey=k1"
    /\ PlainPackaging
    /\ functionAppSettings = NotProvisioned
    /\ bindingList = <<>>
    /\ blobArgs \in [path : PathChoices, containerName : ContainerNameChoices,
                      filterPrefix : FilterPrefixChoices, filterSuffix : FilterSuffixChoices]
    /\ blobSubscription = NotCalled
    /\ lookup = NoLookup
    /\ settledOrder = <<>>
    /\ settingsObject = appSettings.value
    /\ subscriptions = NoSubscriptions

NextShared ==
    \/ OnBlobEventShared
    \/ BindingConnectionApply
    \/ AppSettingsApply

SpecShared == InitShared /\ [][NextShared]_vars

\* one call of onEvent of blob.ts and the deployment of the subscription it constructs
InitOnEvent ==
    /\ packageTree \in DeployTrees
    /\ readError = "none"
    /\ includedPackages = <<>>
    /\ excludedPackages = {}
    /\ pathSetPromise = Pending
    /\ revision = "subscription.ts"
    /\ args \in BlobCallers
    /\ ctor = NotConstructed
    /\ created = {}
    /\ serializedHandler = "pending"
    /\ bindings = "pending"
    /\ assetMap = "pending"
    /\ codeBlobUrl = "pending"
    /\ sasRequests = <<>>
    /\ appSettings \in CallerSettings
    /\ primaryConnectionString \in ConnectionStrings
    /\ PlainPackaging
    /\ functionAppSettings = NotProvisioned
    /\ bindingList = <<>>
    /\ blobArgs \in OnEventCalls
    /\ blobSubscription = NotCalled
    /\ lookup = NoLookup
    /\ Alone

NextOnEvent ==
    \/ OnEventOfBlob
    \/ OnEventOfPath
    \/ ReadPackageTreeCallback
    \/ SerializeFunctionSettles
    \/ BindingsResolve
    \/ AssetMapSettles
    \/ Provision
    \/ SignCodeBlob

SpecOnEvent == InitOnEvent /\ [][NextOnEvent]_vars

Spec == SpecDeploy

----------------------------------------------------------------------------
(* Claims about the dependency closure resolver *)

Settled == pathSetPromise.state # "pending"
Resolved == pathSetPromise.state = "resolved"
ReturnedPaths == SetValues(pathSetPromise.packagePaths)
Installed == Nodes \ {RootNode}

NoDuplicates(seq) == \A i, j \in 1..Len(seq) : i # j => seq[i] # seq[j]

\* the name a package is installed under, read off its folders
InstalledName(n) ==
    LET path == packageTree[n].path
    IN IF path[Len(path) - 1][1] = "@"
       THEN path[Len(path) - 1] \o Slash \o path[Len(path)]
       ELSE path[Len(path)]

\* a name of the packaging framework's own namespace
InPulumiNamespace(name) == StartsWith(name, AtPulumi \o Slash)

Keys(seq) == {seq[i] : i \in 1..Len(seq)}

\* the nodes reached from a set of nodes by resolving declared dependencies
RECURSIVE DependencyClosure(_)
DependencyClosure(S) ==
    LET found(n) == {findDependency(n, d) : d \in Keys(packageTree[n].package.dependencies)}
        next == S \cup (UNION {found(n) : n \in S} \ {NoNode})
    IN IF next = S THEN S ELSE DependencyClosure(next)

\* the nodes reachable from the root's runtime dependencies and the included packages
RuntimeSeeds == Keys(packageTree[RootNode].package.dependencies) \cup Keys(includedPackages)
RuntimeReach == DependencyClosure({findDependency(RootNode, s) : s \in RuntimeSeeds} \ {NoNode})

\* some declared dependencies lead back to a package that declared them
HasCycle ==
    \E n \in Installed :
        n \in DependencyClosure({findDependency(n, d) :
                                    d \in Keys(packageTree[n].package.dependencies)} \ {NoNode})

\* C1: once the readPackageTree callback has run on a readable tree, the promise is
\* resolved with a path set (resolution terminated), whatever cycles the declared
\* dependencies form, and no path is in the set twice.
C1_ResolutionTerminates ==
    Settled => /\ Resolved
               /\ NoDuplicates(pathSetPromise.packagePaths)

\* Resolution fails to return a set only on trees whose declared dependencies form a cycle.
TerminatesUnlessCyclic ==
    Settled => /\ NoDuplicates(pathSetPromise.packagePaths)
               /\ (~Resolved => HasCycle)

\* C2: the returned set holds no path of a package whose name is in the exclusion
\* set or in the @pulumi namespace, also when an included package declares it.
C2_ExcludedNeverReturned ==
    Resolved =>
        \A n \in Installed :
            (InstalledName(n) \in excludedPackages \/ InPulumiNamespace(InstalledName(n)))
                => packageTree[n].path \notin ReturnedPaths

\* an included package declares a dependency on an installed package the caller excluded
C2_Witness ==
    /\ Resolved
    /\ \E n \in Installed :
        /\ packageTree[n].path \in ReturnedPaths
        /\ \E d \in Keys(packageTree[n].package.dependencies) :
            /\ d \in excludedPackages
            /\ findDependency(n, d) # NoNode

\* an included package declares a dependency on an installed @pulumi package
ReservedDeclaredByIncluded ==
    /\ Resolved
    /\ \E n \in Installed :
        /\ packageTree[n].path \in ReturnedPaths
        /\ \E d \in Keys(packageTree[n].package.dependencies) :
            /\ InPulumiNamespace(d)
            /\ findDependency(n, d) # NoNode

\* the nodes reachable from the root's development-only and peer-only declarations
DevPeerSeeds ==
    Keys(packageTree[RootNode].package.devDependencies)
    \cup Keys(packageTree[RootNode].package.peerDependencies)
DevPeerReach == DependencyClosure({findDependency(RootNode, s) : s \in DevPeerSeeds} \ {NoNode})

\* C3: a package reachable from the root only through a devDependencies or
\* peerDependencies declaration (not through dependencies or an included package)
\* never has its path in the returned set.
C3_DevOnlyNeverReturned ==
    Resolved =>
        \A n \in DevPeerReach \ RuntimeReach : packageTree[n].path \notin ReturnedPaths

\* a development-only package is installed beside a runtime dependency that is returned
C3_Witness ==
    /\ Resolved
    /\ DevPeerReach \ RuntimeReach # {}
    /\ ReturnedPaths # {}

\* a name the caller excluded or a name of the @pulumi namespace
Unwanted(name) == name \in excludedPackages \/ InPulumiNamespace(name)

Wanted(n) == {d \in Keys(packageTree[n].package.dependencies) : ~Unwanted(d)}

\* the nodes the runtime seeds lead to when unwanted names are not followed
RECURSIVE WantedClosure(_)
WantedClosure(S) ==
    LET found(n) == {findDependency(n, d) : d \in Wanted(n)}
        next == S \cup (UNION {found(n) : n \in S} \ {NoNode})
    IN IF next = S THEN S ELSE WantedClosure(next)

WantedSeeds == {s \in RuntimeSeeds : ~Unwanted(s)}
WantedReach == WantedClosure({findDependency(RootNode, s) : s \in WantedSeeds} \ {NoNode})

\* the requested names, direct or transitive, that no node of the tree matches
MissingNames ==
    {s \in WantedSeeds : findDependency(RootNode, s) = NoNode}
    \cup UNION {{d \in Wanted(n) : findDependency(n, d) = NoNode} : n \in WantedReach}

\* C4: when a requested name has no matching node, resolution still completes, a
\* warning names it, and the returned set is the paths of the resolvable dependencies.
C4_MissingDependencyTolerated ==
    (Settled /\ MissingNames # {}) =>
        /\ Resolved
        /\ MissingNames \subseteq Keys(pathSetPromise.warnings)
        /\ ReturnedPaths = {packageTree[n].path : n \in WantedReach}

\* Whenever a set is returned, every missing name was warned about and the set is the
\* paths of the resolvable dependencies.
MissingDependencySkippedWhenResolved ==
    Resolved =>
        /\ MissingNames \subseteq Keys(pathSetPromise.warnings)
        /\ ReturnedPaths = {packageTree[n].path : n \in WantedReach}

----------------------------------------------------------------------------
(* Claims about the EventSubscription constructor *)

ExternalResources ==
    {"resourceGroup", "storageAccount", "storageContainer", "appServicePlan",
     "zipBlob", "functionApp"}

\* C5: when readPackageTree fails, the promise of allFoldersForPackages is rejected
\* with that error and carries no path set, the asset map is never built and the
\* function app is never provisioned.
C5_ReadFailureAbortsPackaging ==
    (revision = "subscription.ts" /\ readError # "none") =>
        /\ pathSetPromise.state \in {"pending", "rejected"}
        /\ pathSetPromise.state = "rejected" => pathSetPromise.error = readError
        /\ pathSetPromise.packagePaths = <<>>
        /\ assetMap # "built"
        /\ "functionApp" \notin created

\* the read failed after everything else of the deployment had gone well
C5_Witness ==
    /\ revision = "subscription.ts"
    /\ readError # "none"
    /\ pathSetPromise.state = "rejected"
    /\ serializedHandler = "resolved"
    /\ bindings = "resolved"
    /\ assetMap = "rejected"
    /\ "storageAccount" \in created

\* C6: when both func and factoryFunc are set (and the resource group is given), the
\* constructor throws the configuration error before it has registered any resource
\* or started any serialization or dependency walk.
C6_BothCallbacksFailFirst ==
    (/\ revision = "part_001"
     /\ args.func /\ args.factoryFunc /\ args.resourceGroup
     /\ ctor.state # "notCalled") =>
        /\ ctor.thrown = BothCallbacksError
        /\ Registered = {}
        /\ ctor.started = {}

\* C7: serializeCallback returns exactly when one of func and factoryFunc is given;
\* with both or with neither it throws, and then neither serializeFunction nor
\* computeCodePaths has been called.
C7_ExactlyOneCallback ==
    (revision = "part_001" /\ ctor.serializeCallback # "notCalled") =>
        LET exactlyOne == args.func # args.factoryFunc
        IN /\ (ctor.serializeCallback = "returned") <=> exactlyOne
           /\ (args.func /\ args.factoryFunc) => ctor.thrown = BothCallbacksError
           /\ (~args.func /\ ~args.factoryFunc) => ctor.thrown = NoCallbackError
           /\ ~exactlyOne =>
                /\ ctor.state = "threw"
                /\ ctor.started = {}
                /\ serializedHandler = "pending"
                /\ pathSetPromise.state = "pending"

\* serializeCallback was called without any callback
C7_Witness ==
    /\ revision = "part_001"
    /\ ~args.func /\ ~args.factoryFunc
    /\ ctor.serializeCallback = "threw"

----------------------------------------------------------------------------
(* Claims about signedBlobReadUrl *)

Signings == {sasRequests[i] : i \in 1..Len(sasRequests)}

SameInputs(x, y) ==
    /\ x.revision = y.revision
    /\ x.connectionString = y.connectionString
    /\ x.containerName = y.containerName
    /\ x.blobName = y.blobName

\* C9: two calls with the same connection string, container name and blob name build
\* the same signing request and return the same URL.
C9_SigningDeterministic ==
    \A x, y \in Signings :
        SameInputs(x, y) => x.request = y.request /\ x.url = y.url

\* Two calls with the same inputs on machines in the same time zone return the same
\* URL, whatever their clocks read.
SigningDeterministicPerTimeZone ==
    \A x, y \in Signings :
        (SameInputs(x, y) /\ x.env.timeZone = y.env.timeZone)
            => x.request = y.request /\ x.url = y.url

PermissionOfLetter ==
    [letter \in {"r", "a", "c", "w", "d", "l"} |->
        CASE letter = "r" -> "read" [] letter = "a" -> "add" [] letter = "c" -> "create"
          [] letter = "w" -> "write" [] letter = "d" -> "delete" [] letter = "l" -> "list"]

\* the permissions a signing request grants
Granted(x) ==
    IF x.revision = "util.ts"
    THEN {p \in DOMAIN x.request.permissions : x.request.permissions[p]}
    ELSE LET letters == x.request.AccessPolicy.Permissions
         IN {PermissionOfLetter[letters[i]] : i \in 1..Len(letters)}

\* C10: every signing request grants read and nothing else.
C10_ReadOnly ==
    \A x \in Signings : Granted(x) = {"read"}

\* both revisions of signedBlobReadUrl have issued a request
C10_Witness ==
    /\ \E x \in Signings : x.revision = "util.ts"
    /\ \E x \in Signings : x.revision = "functionApp.ts"

----------------------------------------------------------------------------
(* Claims about the asset map *)

FixedKeys ==
    {HostJson, functionName \o Slash \o FunctionJson, functionName \o Slash \o IndexJs,
     functionName \o Slash \o HandlerJs}

\* the key an included path is filed under: <name>/<path>
KeyOfPath(p) == functionName \o Slash \o PathString(p)

\* C11: the asset map serializeCallback builds holds one host.json entry, one
\* <name>/function.json, one <name>/index.js, one <name>/handler.js and one entry per
\* included path: exactly 4 + |includedPaths| distinct keys, no write replacing another.
C11_AssetMapEntries ==
    zipContent.built =>
        LET map == zipContent.map
        IN /\ Cardinality(FixedKeys) = 4
           /\ FixedKeys \subseteq DOMAIN map
           /\ \A k \in FixedKeys : map[k].kind = "StringAsset"
           /\ map[functionName \o Slash \o FunctionJson].text = FunctionJsonText(bindingList)
           /\ map[functionName \o Slash \o HandlerJs].text = SerializedHandlerText
           /\ \A p \in ReturnedPaths :
                /\ KeyOfPath(p) \in DOMAIN map
                /\ map[KeyOfPath(p)].kind \in {"FileArchive", "FileAsset"}
                /\ map[KeyOfPath(p)].path = PathString(p)
           /\ Cardinality(DOMAIN map) = 4 + Cardinality(ReturnedPaths)

\* a map is built for a function named like one of the fixed files, with two included paths
C11_Witness ==
    /\ zipContent.built
    /\ functionName = HostJson
    /\ Len(bindingList) > 0
    /\ Cardinality(ReturnedPaths) = 2

\* C12: every included path that is a directory on disk, however it is reached, is
\* embedded as a directory reference (FileArchive), and any other as a FileAsset.
C12_DirectoriesEmbeddedAsArchives ==
    zipContent.built =>
        \A p \in ReturnedPaths :
            zipContent.map[KeyOfPath(p)].kind =
                IF ResolvesToDirectory(p) THEN "FileArchive" ELSE "FileAsset"

\* what does hold: a path that is itself a directory is embedded as one, and a path
\* that is a link to a directory is embedded as a single file
EmbeddedByLstat ==
    zipContent.built =>
        \A p \in ReturnedPaths :
            zipContent.map[KeyOfPath(p)].kind =
                IF fileSystem[p] = "directory" THEN "FileArchive" ELSE "FileAsset"

----------------------------------------------------------------------------
(* Claims about the function app's settings and the order of the deployment *)

\* C13: the function app's settings map WEBSITE_RUN_FROM_ZIP to the signed URL of this
\* deployment's zip blob, also when the caller's appSettings hold that key, and pass
\* every other setting of the caller through unchanged.
C13_RunFromZipSetting ==
    functionAppSettings.provisioned =>
        LET given == SettingsOrEmpty(appSettings)
            passed == functionAppSettings.value
        IN /\ Len(sasRequests) = 1
           /\ sasRequests[1].connectionString = primaryConnectionString
           /\ sasRequests[1].url[1] = BlobUrl(sasRequests[1].containerName, sasRequests[1].blobName)
           /\ DOMAIN passed = (DOMAIN given) \cup {WebsiteRunFromZip}
           /\ passed[WebsiteRunFromZip] = sasRequests[1].url
           /\ \A k \in (DOMAIN given) \ {WebsiteRunFromZip} : passed[k] = given[k]

\* a function app is provisioned for a caller whose settings already hold the key
C13_Witness ==
    /\ functionAppSettings.provisioned
    /\ appSettings.given
    /\ WebsiteRunFromZip \in DOMAIN appSettings.value
    /\ "FOO" \in DOMAIN functionAppSettings.value

\* some step of the deployment has failed
Failed ==
    \/ ctor.state = "threw"
    \/ serializedHandler = "rejected"
    \/ pathSetPromise.state \in {"rejected", "threw"}
    \/ assetMap = "rejected"
    \/ codeBlobUrl = "rejected"

\* each step has taken effect only after the one before it succeeded
InOrder ==
    /\ assetMap = "built" => (bindings = "resolved" /\ zipContent.built)
    /\ zipContent.built => assetMap = "built"
    /\ "zipBlob" \in created => assetMap = "built"
    /\ Len(sasRequests) > 0 => "zipBlob" \in created
    /\ codeBlobUrl # "pending" => Len(sasRequests) = 1
    /\ Len(sasRequests) <= 1
    /\ "functionApp" \in created => (codeBlobUrl = "resolved" /\ functionAppSettings.provisioned)
    /\ functionAppSettings.provisioned => "functionApp" \in created
    /\ Failed => "functionApp" \notin created

\* a step that has taken effect is not taken again
Once ==
    /\ ctor.state # "notCalled" => ctor' = ctor
    /\ bindings = "resolved" => bindings' = "resolved"
    /\ serializedHandler # "pending" => serializedHandler' = serializedHandler
    /\ pathSetPromise.state # "pending" => pathSetPromise' = pathSetPromise
    /\ assetMap # "pending" => (assetMap' = assetMap /\ zipContent' = zipContent)
    /\ codeBlobUrl # "pending" => (codeBlobUrl' = codeBlobUrl /\ sasRequests' = sasRequests)
    /\ created \subseteq created'
    /\ functionAppSettings.provisioned => functionAppSettings' = functionAppSettings

C15_ErrorsSynchronousNothingCreated ==
    Failed =>
        /\ ctor.state = "threw"
        /\ Registered \cap ExternalResources = {}
        /\ created \cap ExternalResources = {}

\* what does hold: after a failure the function app is never provisioned
FailureNeverProvisions == Failed => "functionApp" \notin created

\* C18: when args.storageContainer is not given, the zip blob goes to the root container
\* of the storage account and the constructor registers no storage container.
C18_RootContainerByDefault ==
    (ctor.state = "returned" /\ ~args.storageContainer) =>
        /\ ZipBlobContainer(args) = RootContainer
        /\ "storageContainer" \notin Registered

\* what does hold: the zip blob goes to the caller's container when one is given, and
\* to a container the constructor registers when none is
ContainerGivenOrRegistered ==
    ctor.state = "returned" =>
        IF args.storageContainer
        THEN ZipBlobContainer(args) = "args.storageContainer" /\ "storageContainer" \notin Registered
        ELSE ZipBlobContainer(args) # RootContainer /\ "storageContainer" \in Registered

----------------------------------------------------------------------------
(* Claims about onBlobEvent of storage/account.ts *)

\* the call got past the derivation of the trigger path
BindingsMade == blobSubscription.state # "notCalled" /\ blobSubscription.thrown # BlobPathError

\* the function.json text the call would lead to for an account with that connection string
FunctionJsonFor(connectionString) ==
    FunctionJsonText(onBlobEvent(functionName, [primaryConnectionString |-> connectionString],
                                 BlobEventSubscriptionArgs).bindings)

FilterOrEmpty(x) == IF x.given THEN x.value ELSE <<>>

\* C17: the binding path is args.path when a path is given (a non-empty string);
\* otherwise, when a container name is given, <containerName>/<prefix>{blobName}<suffix>
\* with an absent prefix or suffix empty; with neither, onBlobEvent throws the RunError
\* and no subscription resource is constructed.
C17_TriggerPath ==
    blobSubscription.state # "notCalled" =>
        IF blobArgs.path.given /\ blobArgs.path.value # <<>>
        THEN /\ Len(bindingList) = 1
             /\ Field(bindingList[1], "path") = blobArgs.path.value
        ELSE IF blobArgs.containerName.given /\ blobArgs.containerName.value # <<>>
        THEN /\ Len(bindingList) = 1
             /\ Field(bindingList[1], "path") =
                    blobArgs.containerName.value \o <<"/">> \o FilterOrEmpty(blobArgs.filterPrefix)
                    \o <<"{", "b", "l", "o", "b", "N", "a", "m", "e", "}">>
                    \o FilterOrEmpty(blobArgs.filterSuffix)
        ELSE /\ blobSubscription = [state |-> "threw", thrown |-> BlobPathError]
             /\ ctor = NotConstructed
             /\ Registered = {}
             /\ created = {}
             /\ bindingList = <<>>

\* a container name with a suffix and no prefix, beside an empty path
C17_Witness ==
    /\ blobSubscription.state = "returned"
    /\ blobArgs.path = Given(<<>>)
    /\ blobArgs.containerName.given
    /\ ~blobArgs.filterPrefix.given
    /\ blobArgs.filterSuffix.given
    /\ "functionApp" \in created

\* neither a path nor a container name
PathErrorThrown ==
    /\ blobSubscription.thrown = BlobPathError
    /\ ~blobArgs.path.given
    /\ ~blobArgs.containerName.given

----------------------------------------------------------------------------
(* Claims about findDependency *)

\* the folder names of a node's install path
ParentFolder(n) == packageTree[n].path[Len(packageTree[n].path) - 1]
LeafFolder(n) == packageTree[n].path[Len(packageTree[n].path)]

\* the name a node goes by: <parentFolder>/<leafFolder> inside an "@" folder, and its
\* stored name elsewhere
NameOfNode(n) ==
    IF ParentFolder(n)[1] = "@"
    THEN ParentFolder(n) \o <<"/">> \o LeafFolder(n)
    ELSE packageTree[n].name

ChildrenOf(n) == {packageTree[n].children[i] : i \in 1..Len(packageTree[n].children)}

\* the node d parent links above n, or NoNode past the root
RECURSIVE AncestorAt(_, _)
AncestorAt(n, d) ==
    IF n = NoNode \/ d = 0 THEN n ELSE AncestorAt(packageTree[n].parent, d - 1)

\* the distances at which the chain from n has a node with a child of that name
MatchDistances(n, wanted) ==
    {d \in 0..Cardinality(Nodes) :
        /\ AncestorAt(n, d) # NoNode
        /\ \E c \in ChildrenOf(AncestorAt(n, d)) : NameOfNode(c) = wanted}

\* C19: findDependency returns a child of the starting node with the wanted name when
\* there is one, otherwise such a child of the closest ancestor that has one, and
\* undefined only when no node on the chain up to the root has one.
C19_NearestMatch ==
    lookup.called =>
        LET distances == MatchDistances(lookup.root, lookup.name)
        IN IF distances = {}
           THEN lookup.result = NoNode
           ELSE LET nearest == CHOOSE d \in distances : \A e \in distances : d <= e
                IN /\ lookup.result \in ChildrenOf(AncestorAt(lookup.root, nearest))
                   /\ NameOfNode(lookup.result) = lookup.name

\* the match is found two levels up although a node nearer the top is passed on the way
C19_Witness ==
    /\ lookup.called
    /\ lookup.result # NoNode
    /\ MatchDistances(lookup.root, lookup.name) = {2}

\* C20: a node installed in an "@" folder is matched under <parentFolder>/<leafFolder>
\* whatever its stored name, so "@org/pkg" resolves to the node at .../@org/pkg and
\* plain "pkg" never does; a node outside an "@" folder is matched by its stored name.
C20_ScopedNameFromPath ==
    lookup.called =>
        /\ lookup.result # NoNode =>
              IF ParentFolder(lookup.result)[1] = "@"
              THEN lookup.name = ParentFolder(lookup.result) \o <<"/">> \o LeafFolder(lookup.result)
              ELSE lookup.name = packageTree[lookup.result].name
        /\ \A c \in ChildrenOf(lookup.root) :
              (ParentFolder(c)[1] = "@" /\ lookup.name = ParentFolder(c) \o <<"/">> \o LeafFolder(c))
                  => lookup.result # NoNode
        /\ \A c \in ChildrenOf(lookup.root) :
              (ParentFolder(c)[1] # "@" /\ lookup.name = packageTree[c].name)
                  => lookup.result # NoNode

\* "@pulumi/x" resolves to the node in @pulumi/x, whose stored name is plain "x"
C20_Witness ==
    /\ lookup.called
    /\ lookup.name = NamePulumiX
    /\ lookup.result # NoNode
    /\ packageTree[lookup.result].name = <<"x">>

\* plain "x" is asked for while a node in @pulumi/x with stored name "x" is in reach
PlainNameBesideScopedNode ==
    /\ lookup.called
    /\ lookup.name = <<"x">>
    /\ lookup.result = NoNode
    /\ \E c \in ChildrenOf(lookup.root) :
          ParentFolder(c)[1] = "@" /\ packageTree[c].name = <<"x">>

----------------------------------------------------------------------------
(* Claims about the walk and the join *)

\* C21: during one resolution the declared dependencies of each resolved node are
\* traversed at most once, also when the node is reached through several dependents.
C21_EachNodeWalkedOnce ==
    Resolved => NoDuplicates(pathSetPromise.walked)

\* what does hold: each resolved node is in the returned set once
EachPathReturnedOnce ==
    Resolved => NoDuplicates(pathSetPromise.packagePaths)

\* the computations that have completed
Completed == {settledOrder[i] : i \in 1..Len(settledOrder)}

\* C22: the asset map is built only after the bindings, the serialized handler and the
\* path set have all been produced, in whatever order they complete, and it is the map
\* of those three values whatever that order was.
C22_BuiltAfterJoin ==
    /\ zipContent.built => assetMap = "built"
    /\ assetMap = "built" =>
          /\ Completed = {"bindings", "serializedHandler", "pathSet"}
          /\ bindings = "resolved"
          /\ serializedHandler = "resolved"
          /\ pathSetPromise.state = "resolved"
          /\ zipContent.built
          /\ zipContent.map =
                AssetMapOf(functionName, bindingList, SerializedHandlerText,
                           allFoldersForPackages(includedPackages, excludedPackages).packagePaths)

\* the map is built after the bindings came last, behind the handler and the path set
C22_Witness ==
    /\ assetMap = "built"
    /\ settledOrder = <<"serializedHandler", "pathSet", "bindings">>
    /\ ReturnedPaths # {}

\* the map is built after the path set came last
BuiltWithPathSetLast ==
    /\ assetMap = "built"
    /\ settledOrder = <<"bindings", "serializedHandler", "pathSet">>
    /\ ReturnedPaths # {}

\* C23: on an acyclic tree the returned set is exactly the reference closure: the paths
\* of the nodes reached from the root's runtime dependencies and includedPackages by
\* nearest-match resolution of declared dependencies, skipping excluded names and
\* names of the @pulumi scope.
C23_ClosureExact ==
    (Resolved /\ ~HasCycle) =>
        ReturnedPaths = {packageTree[n].path : n \in WantedReach}

\* the closure when every name that starts with "@pulumi" is skipped
PrefixSkipped(d) == d \in excludedPackages \/ StartsWith(d, AtPulumi)

RECURSIVE PrefixClosure(_)
PrefixClosure(S) ==
    LET found(n) == {findDependency(n, d) :
                        d \in {e \in Keys(packageTree[n].package.dependencies) : ~PrefixSkipped(e)}}
        next == S \cup (UNION {found(n) : n \in S} \ {NoNode})
    IN IF next = S THEN S ELSE PrefixClosure(next)

PrefixReach ==
    PrefixClosure({findDependency(RootNode, s) : s \in {t \in RuntimeSeeds : ~PrefixSkipped(t)}}
                  \ {NoNode})

\* what does hold: the returned set is the closure under the prefix rule
ClosureExactUnderPrefixRule ==
    (Resolved /\ ~HasCycle) =>
        ReturnedPaths = {packageTree[n].path : n \in PrefixReach}

\* C25: only names of the @pulumi scope are skipped as reserved: every installed runtime
\* dependency of the root that is neither excluded nor of that scope, a name of another
\* scope that begins with "@pulumi" included, has its path in the returned set.
C25_OnlyNamespaceReserved ==
    Resolved =>
        \A d \in Keys(packageTree[RootNode].package.dependencies) :
            (/\ d \notin excludedPackages
             /\ ~InPulumiNamespace(d)
             /\ findDependency(RootNode, d) # NoNode)
                => packageTree[findDependency(RootNode, d)].path \in ReturnedPaths

\* what does hold: a dependency of the root that does not start with "@pulumi" and is
\* not excluded is returned
UnprefixedDependencyReturned ==
    Resolved =>
        \A d \in Keys(packageTree[RootNode].package.dependencies) :
            (~PrefixSkipped(d) /\ findDependency(RootNode, d) # NoNode)
                => packageTree[findDependency(RootNode, d)].path \in ReturnedPaths

\* the path expressed relative to the project root
RelativePath(p) == JoinSegments(Tail(p))

RelativeFormKeptRelative ==
    (zipContent.built /\ pathForm = "relative") =>
        \A p \in ReturnedPaths :
            functionName \o Slash \o RelativePath(p) \in DOMAIN zipContent.map

\* a map built from absolute paths
BuiltFromAbsolutePaths ==
    /\ zipContent.built
    /\ pathForm = "absolute"
    /\ ReturnedPaths # {}

----------------------------------------------------------------------------
(* Claims about the resources of a subscription *)

\* C26: the constructor registers a new storage account (StorageV2, Standard, LRS) if and
\* only if args.storageAccount is not given, and a new plan (Dynamic, Y1) if and only if
\* args.appServicePlan is not given; a storage account, container or plan the caller
\* gives is the one the zip blob, the signed URL and the function app use, and no
\* replacement for it is registered or provisioned.
C26_DefaultsOnlyWhenNotSupplied ==
    ctor.state = "returned" =>
        /\ ("storageAccount" \in Registered) <=> ~args.storageAccount
        /\ ("appServicePlan" \in Registered) <=> ~args.appServicePlan
        /\ ~args.storageAccount =>
               /\ StorageAccountOf(args).from = "new azure.storage.Account"
               /\ StorageAccountOf(args).args =
                      [accountKind |-> "StorageV2", accountTier |-> "Standard",
                       accountReplicationType |-> "LRS"]
        /\ ~args.appServicePlan =>
               /\ AppServicePlanOf(args).from = "new azure.appservice.Plan"
               /\ AppServicePlanOf(args).args.sku = [tier |-> "Dynamic", size |-> "Y1"]
        /\ args.storageAccount =>
               /\ ZipBlobArgs(args).storageAccountName = [from |-> "args.storageAccount"]
               /\ SignedBlobReadUrlArgs(args).account = [from |-> "args.storageAccount"]
               /\ FunctionAppArgs(args).storageConnectionString = [from |-> "args.storageAccount"]
               /\ "storageAccount" \notin created
        /\ args.storageContainer =>
               /\ ZipBlobArgs(args).storageContainerName = "args.storageContainer"
               /\ SignedBlobReadUrlArgs(args).container = "args.storageContainer"
               /\ "storageContainer" \notin Registered \cup created
        /\ args.appServicePlan =>
               /\ FunctionAppArgs(args).appServicePlanId = [from |-> "args.appServicePlan"]
               /\ "appServicePlan" \notin created

\* a function app is provisioned on the caller's account, container and plan
C26_Witness ==
    /\ args.storageAccount /\ args.storageContainer /\ args.appServicePlan
    /\ "functionApp" \in created

\* a function app is provisioned on an account and a plan the constructor made
FunctionAppOnDefaults ==
    /\ ~args.storageAccount /\ ~args.appServicePlan
    /\ {"storageAccount", "appServicePlan", "functionApp"} \subseteq created

----------------------------------------------------------------------------
(* Claims about reproducible packaging *)

\* the keys a run over the project lists: the four fixed files, then the included paths
\* in the order the walk found them
KeyOrderOfProject ==
    LET paths == allFoldersForPackages(includedPackages, excludedPackages).packagePaths
    IN <<HostJson, functionName \o Slash \o FunctionJson, functionName \o Slash \o IndexJs,
         functionName \o Slash \o HandlerJs>>
       \o [i \in 1..Len(paths) |-> KeyOfPath(paths[i])]

\* the content descriptor a run over the project files under a key
DescriptorOfProject(k) ==
    CASE k = HostJson -> StringAsset(HostJsonText)
      [] k = functionName \o Slash \o FunctionJson -> StringAsset(FunctionJsonText(bindingList))
      [] k = functionName \o Slash \o IndexJs -> StringAsset(IndexJsText)
      [] k = functionName \o Slash \o HandlerJs -> StringAsset(SerializedHandlerText)
      [] OTHER ->
            LET p == CHOOSE q \in SetValues(allFoldersForPackages(includedPackages,
                                                excludedPackages).packagePaths) :
                        KeyOfPath(q) = k
            IN IF LstatIsDirectory(p) THEN FileArchive(PathString(p))
               ELSE FileAsset(PathString(p))

\* C28: packaging is deterministic: the asset map a run builds, its keys, the content
\* descriptor of each key and the order in which the keys are listed, are determined by
\* the project tree, the function name, the binding list and the serialized handler
\* text, so that two runs over the same inputs produce the same map in the same order.
C28_PackagingDeterministic ==
    zipContent.built =>
        /\ zipContent.order = KeyOrderOfProject
        /\ NoDuplicates(zipContent.order)
        /\ DOMAIN zipContent.map = {zipContent.order[i] : i \in 1..Len(zipContent.order)}
        /\ \A k \in DOMAIN zipContent.map : zipContent.map[k] = DescriptorOfProject(k)

\* a map with two included paths is built in a run where the path set completed first
C28_Witness ==
    /\ zipContent.built
    /\ settledOrder[1] = "pathSet"
    /\ Cardinality(ReturnedPaths) = 2

\* a map with two included paths is built in a run where the path set completed last
TwoPathsBuiltPathSetLast ==
    /\ zipContent.built
    /\ settledOrder[3] = "pathSet"
    /\ Cardinality(ReturnedPaths) = 2

----------------------------------------------------------------------------
(* Claims about subscriptions that share their settings *)

\* the subscriptions whose function app has been handed its settings
Spread == {i \in 1..Len(subscriptions) : subscriptions[i].stage = "spread"}

\* C27: when two onBlobEvent subscriptions on different storage accounts are created
\* from the same caller-supplied appSettings value, each function app receives under
\* BindingConnectionAppSettingsKey the connection string of its own account, in every
\* interleaving of the two asynchronous computations, and the caller's appSettings value
\* is left unmodified.
C27_OwnConnectionPerSubscription ==
    /\ \A i, j \in Spread :
          subscriptions[i].account # subscriptions[j].account =>
              subscriptions[i].functionAppSettings.value[BindingConnectionKey]
                  = subscriptions[i].account
    /\ settingsObject = appSettings.value

\* the first part alone: each function app receives its own account's connection string
OwnConnectionReceived ==
    \A i, j \in Spread :
        subscriptions[i].account # subscriptions[j].account =>
            subscriptions[i].functionAppSettings.value[BindingConnectionKey]
                = subscriptions[i].account

\* the second part alone: the caller's value is as the caller made it
CallerSettingsUntouched ==
    (\E i \in 1..Len(subscriptions) : subscriptions[i].stage \in {"assigned", "spread"})
        => settingsObject = appSettings.value

\* what does hold: a subscription whose two callbacks ran back to back, or that is the
\* only one made, receives its own account's connection string
OnlySubscriptionReceivesOwn ==
    (Len(subscriptions) = 1 /\ Spread = {1}) =>
        subscriptions[1].functionAppSettings.value[BindingConnectionKey]
            = subscriptions[1].account

\* both function apps were handed the connection string of the second account
BothReceiveOneAccount ==
    /\ Spread = {1, 2}
    /\ subscriptions[1].account # subscriptions[2].account
    /\ subscriptions[1].functionAppSettings.value[BindingConnectionKey]
           = subscriptions[2].functionAppSettings.value[BindingConnectionKey]

----------------------------------------------------------------------------
(* Claims about onEvent of blob.ts *)

\* the function.json text the call would lead to for an account with that connection string
OnEventFunctionJsonFor(connectionString) ==
    FunctionJsonText(
        IF blobArgs.form = "blob"
        THEN onEvent(functionName,
                     [storageContainerName |-> blobArgs.storageContainerName,
                      name |-> blobArgs.name],
                     [primaryConnectionString |-> connectionString], args).bindings
        ELSE onEventOfPath(functionName, [primaryConnectionString |-> connectionString],
                           blobArgs.path, args).bindings)

\* C29: the binding manifest blob.onEvent produces does not carry the storage account's
\* secret: the function.json text written for the subscription is the same for any two
\* values of the account's primary connection string.
C29_ManifestWithoutSecret ==
    blobSubscription.state = "returned" =>
        /\ Field(bindingList[1], "connection") \notin ConnectionStrings
        /\ \A c1, c2 \in ConnectionStrings :
              OnEventFunctionJsonFor(c1) = OnEventFunctionJsonFor(c2)
        /\ zipContent.built =>
              \A c \in ConnectionStrings :
                  zipContent.map[functionName \o Slash \o FunctionJson].text
                      = OnEventFunctionJsonFor(c)

\* what does hold: the connection field of the binding is the connection string itself,
\* and the function.json that is packaged is the one of the account's own string
ManifestCarriesConnectionString ==
    blobSubscription.state = "returned" =>
        /\ Len(bindingList) = 1
        /\ Field(bindingList[1], "connection") = primaryConnectionString
        /\ zipContent.built =>
              zipContent.map[functionName \o Slash \o FunctionJson].text
                  = OnEventFunctionJsonFor(primaryConnectionString)

\* a function.json holding the connection string is packaged, for either form of onEvent
SecretPackagedFromBlob ==
    /\ blobArgs.form = "blob"
    /\ zipContent.built
    /\ Field(bindingList[1], "connection") = primaryConnectionString

SecretPackagedFromPath ==
    /\ blobArgs.form = "path"
    /\ zipContent.built
    /\ Field(bindingList[1], "connection") = primaryConnectionString
====
